---- MODULE Spec2Model ----
(***************************************************************************)
(* State-machine model of the rate-limited, authenticated request pipeline *)
(* of deepquant-cex-go-sdk: the token-bucket RateLimiter, the HTTPClient   *)
(* transport and the Gemini domain operations built on them.               *)
(*                                                                         *)
(* Goroutines are the callers 1..NumCallers.  Each step of a caller is one *)
(* access to shared state (a mutex operation, a critical-section block, a  *)
(* read of the shared configuration, the network call).  Time is the       *)
(* discrete clock `now`.  A process-fatal fault (unlock of an unlocked     *)
(* sync.Mutex, an unrecovered run-time panic) is recorded in `fatal`; no   *)
(* step is possible after it.                                              *)
(***************************************************************************)
EXTENDS Integers, Sequences, FiniteSets, TLC

\* ---------------------------------------------------------------- bounds
NumCallers == 2
MaxTime == 3
MaxCap == 2
MaxInterval == 2
MaxCalls == 4
MaxRequests == 2

Callers == 1..NumCallers
Caps == (-1)..MaxCap
Intervals == 0..MaxInterval

VARIABLES
  now,        \* the wall clock (time.Now)
  fatal,      \* "" or the fatal fault that ended the process
  limiters,   \* every RateLimiter constructed so far, by identity
  pc,         \* each caller's position
  frame,      \* each caller's locals
  ctx,        \* each caller's context: "live", or the error it is done with
  stats,      \* history, per limiter: when built, what its calls returned
  calls,      \* history: number of operations started
  publicLimiter,   \* HTTPClient.publicLimiter: a limiter identity, 0 for nil
  privateLimiter,  \* HTTPClient.privateLimiter
  headers,    \* HTTPClient.headers: the default headers
  proxies,    \* HTTPClient.proxies
  apiKey,     \* Gemini.apiKey
  apiSecret,  \* Gemini.apiSecret
  baseURL,    \* Gemini.baseURL
  sandbox,    \* Gemini.sandbox
  customClient,  \* HTTPClient.customClient: "" for nil
  mu,         \* HTTPClient.mu: whether write-locked, number of read locks
  cfg,        \* history: the configuration the client was constructed from
  setter,     \* the goroutine that reconfigures the client: position, locals
  responses   \* every fasthttp.Response allocated so far: its body storage, whether in the pool

transportVars == <<publicLimiter, privateLimiter, headers, proxies, customClient, mu>>

geminiVars == <<apiKey, apiSecret, baseURL, sandbox>>

setupVars == <<cfg, setter>>

poolVars == <<responses>>

clientVars == <<transportVars, geminiVars, setupVars, poolVars>>

vars == <<now, fatal, limiters, pc, frame, ctx, stats, calls, clientVars>>

\* ------------------------------------------------------- Go arithmetic
\* Go's integer division truncates toward zero; the divisor is not zero.
GoDiv(a, b) ==
  IF (a >= 0) = (b > 0)
    THEN (IF a >= 0 THEN a ELSE -a) \div (IF b > 0 THEN b ELSE -b)
    ELSE -((IF a >= 0 THEN a ELSE -a) \div (IF b > 0 THEN b ELSE -b))

GoMod(a, b) == a - b * GoDiv(a, b)

min(a, b) == IF a < b THEN a ELSE b

\* ---------------------------------------------------------- RateLimiter
NewRateLimiter(maxTokens, interval, t) ==
  [tokens |-> maxTokens, maxTokens |-> maxTokens, interval |-> interval,
   lastRefill |-> t, mu |-> FALSE]

\* The lazy refill of Wait and TryAcquire divides by the interval.
RefillPanics(L, t) == (t - L.lastRefill >= L.interval) /\ L.interval = 0

Refill(L, t) ==
  LET elapsed == t - L.lastRefill
  IN IF elapsed >= L.interval
       THEN [L EXCEPT !.tokens = min(L.maxTokens, L.tokens + GoDiv(elapsed, L.interval)),
                      !.lastRefill = t]
       ELSE L

WaitTimeZero(L, t) == 0

\* waitTime := rl.interval - (now.Sub(rl.lastRefill) % rl.interval)
WaitTime(L, t) == L.interval - GoMod(t - L.lastRefill, L.interval)

\* sync.Mutex.Unlock: the mutex has no owner; unlocking an unlocked mutex is
\* the unrecoverable fault "sync: unlock of unlocked mutex".
UnlockFaults(L) == ~L.mu

Unlocked(L) == [L EXCEPT !.mu = FALSE]

Locked(L) == [L EXCEPT !.mu = TRUE]

ConsumedNothing(L) == L

Consumed(L) == [L EXCEPT !.tokens = L.tokens - 1]

\* rl.tokens = 1; rl.lastRefill = time.Now()  (after the sleep in Wait)
Granted(L, t) == [L EXCEPT !.tokens = 1, !.lastRefill = t]


\* History of one limiter: its construction time, the number of calls that
\* returned each result, the time of the last acquisition granted, and the
\* refill window (the value of lastRefill) the last token was taken in.
NewStats(t) ==
  [born |-> t, tryOk |-> 0, tryFail |-> 0, waitOk |-> 0, waitErr |-> 0, lastGrant |-> t,
   window |-> -1]

Returned(S, kind, ok, t) ==
  IF kind = "TryAcquire"
    THEN (IF ok THEN [S EXCEPT !.tryOk = @ + 1, !.lastGrant = t]
                ELSE [S EXCEPT !.tryFail = @ + 1])
    ELSE (IF ok THEN [S EXCEPT !.waitOk = @ + 1, !.lastGrant = t]
                ELSE [S EXCEPT !.waitErr = @ + 1])

CtxErrors == {"context canceled", "context deadline exceeded"}

Running == fatal = ""

\* ------------------------------------------------------ errors.SDKError
\* An error is the chain of its layers, outermost first; nil is <<>>.  A
\* layer carries its code and what its message was formatted from.
NoBody == [json |-> "none", result |-> "", reason |-> "", message |-> "", data |-> FALSE]

Layer(sdk, code, status, body, reason, message) ==
  [sdk |-> sdk, code |-> code, status |-> status, body |-> body,
   reason |-> reason, message |-> message]

Nil == <<>>

ErrInvalidInput == "INVALID_INPUT"
ErrRateLimit == "RATE_LIMIT_EXCEEDED"
ErrNetworkError == "NETWORK_ERROR"
ErrAPIError == "API_ERROR"
ErrDataParsingError == "DATA_PARSING_ERROR"
ErrUnknown == "UNKNOWN_ERROR"

\* errors.New(code, message)
New(code) == <<Layer(TRUE, code, 0, NoBody, "", "")>>

\* errors.Wrap(code, message, cause)
Wrap(code, cause) == <<Layer(TRUE, code, 0, NoBody, "", "")>> \o cause

\* a foreign error: ctx.Err(), a transport failure, a json error
Foreign(text) == <<Layer(FALSE, text, 0, NoBody, "", "")>>

\* errors.Newf(ErrNetworkError, "HTTP error: %d %s", status, body)
HTTPStatusError(status, body) == <<Layer(TRUE, ErrNetworkError, status, body, "", "")>>

\* errors.Newf(ErrAPIError, "Gemini API error: %s - %s", reason, message)
APIError(reason, message) == <<Layer(TRUE, ErrAPIError, 0, NoBody, reason, message)>>

\* errors.GetCode
GetCode(err) == IF err # Nil /\ err[1].sdk THEN err[1].code ELSE ErrUnknown

\* ------------------------------------------------------- header maps
\* for k, v := range overrides { req.Header.Set(k, v) } after the defaults
MergeHeadersDefaultsWin(defaults, overrides) ==
  [k \in (DOMAIN defaults) \cup (DOMAIN overrides) |->
     IF k \in DOMAIN defaults THEN defaults[k] ELSE overrides[k]]

MergeHeaders(defaults, overrides) ==
  [k \in (DOMAIN defaults) \cup (DOMAIN overrides) |->
     IF k \in DOMAIN overrides THEN overrides[k] ELSE defaults[k]]

NoHeaders == [k \in {} |-> ""]

\* ------------------------------------------------------ request signing
\* json.Marshal, base64.StdEncoding.EncodeToString, hmac.New(sha512.New384,
\* secret) and hex.EncodeToString as injective symbolic encodings.
Marshal(v) == [enc |-> "json", of |-> v]

Base64(bytes) == [enc |-> "base64", of |-> bytes]

HMACSHA384(secret, msg) == [alg |-> "hmac-sha384", key |-> secret, msg |-> msg]

Hex(digest) == [enc |-> "hex", of |-> digest]

Envelope(endpoint, nonce) == [request |-> endpoint, nonce |-> nonce]

Payload(endpoint, nonce) == Base64(Marshal(Envelope(endpoint, nonce)))

SignatureOverJSON(secret, payload) == Hex(HMACSHA384(secret, payload.of))

Signature(secret, payload) == Hex(HMACSHA384(secret, payload))

\* the headers every private operation passes to PostWithHeaders
PrivateHeaders(key, payload, signature) ==
  [k \in {"X-GEMINI-APIKEY", "X-GEMINI-PAYLOAD", "X-GEMINI-SIGNATURE",
          "Content-Type", "Content-Length", "Cache-Control"} |->
     CASE k = "X-GEMINI-APIKEY" -> key
       [] k = "X-GEMINI-PAYLOAD" -> payload
       [] k = "X-GEMINI-SIGNATURE" -> signature
       [] k = "Content-Type" -> "text/plain"
       [] k = "Content-Length" -> "0"
       [] OTHER -> "no-cache"]

\* ------------------------------------------------------ the operations
PrivateOps ==
  {"PlaceOrder", "CancelOrder", "GetActiveOrders", "GetOrderStatus",
   "GetAvailableBalances", "GetNotionalBalances", "ListDepositAddresses"}

PublicOps == {"ListSymbols", "GetSymbolDetails", "GetTickerV2", "GetTradingPairs"}

Endpoint(op) ==
  CASE op = "PlaceOrder" -> "/v1/order/new"
    [] op = "CancelOrder" -> "/v1/order/cancel"
    [] op = "GetActiveOrders" -> "/v1/orders"
    [] op = "GetOrderStatus" -> "/v1/order/status"
    [] op = "GetAvailableBalances" -> "/v1/balances"
    [] op = "GetNotionalBalances" -> "/v1/notionalbalances/usd"
    [] op = "ListDepositAddresses" -> "/v1/addresses/bitcoin"
    [] op = "ListSymbols" -> "/v1/symbols"
    [] op = "GetSymbolDetails" -> "/v1/symbols/details/btcusd"
    [] op = "GetTickerV2" -> "/v2/ticker/btcusd"
    [] op = "GetTradingPairs" -> "/v1/symbols"
    [] OTHER -> ""

\* GetTradingPairs makes two requests, every other operation one.
Legs(op) == IF op = "GetTradingPairs" THEN 2 ELSE 1

LegEndpoint(op, leg) == IF leg = 2 THEN "/v1/symbols/details" ELSE Endpoint(op)

\* the Go type the operation deserializes a successful response into
SuccessType(op) ==
  CASE op \in {"PlaceOrder", "CancelOrder", "GetOrderStatus"} -> "Order"
    [] op = "GetActiveOrders" -> "[]Order"
    [] op = "GetAvailableBalances" -> "[]Balance"
    [] op = "GetNotionalBalances" -> "[]NotionalBalance"
    [] op = "ListDepositAddresses" -> "[]DepositAddress"
    [] op = "ListSymbols" -> "[]string"
    [] op = "GetSymbolDetails" -> "SymbolDetails"
    [] op = "GetTickerV2" -> "TickerV2"
    [] op = "GetTradingPairs" -> "[]TradingPair"
    [] OTHER -> "nil"

\* the Go type the response of a request is deserialized into
LegType(op, leg) ==
  IF op = "GetTradingPairs" THEN (IF leg = 1 THEN "[]string" ELSE "[]Symbol")
  ELSE SuccessType(op)

IsSliceType(t) ==
  t \in {"[]Order", "[]Balance", "[]NotionalBalance", "[]DepositAddress", "[]string", "[]Symbol"}

\* ---------------------------------------------------- response bodies
\* A body is what encoding/json sees in it: its top-level JSON kind, its
\* "result", "reason" and "message" members, and whether it holds the
\* members of the operation's success type.
EnvelopeBody == [json |-> "object", result |-> "error", reason |-> "X", message |-> "Y", data |-> FALSE]
ObjectBody == [json |-> "object", result |-> "", reason |-> "", message |-> "", data |-> TRUE]
ArrayBody == [json |-> "array", result |-> "", reason |-> "", message |-> "", data |-> TRUE]
InvalidBody == [json |-> "invalid", result |-> "", reason |-> "", message |-> "", data |-> FALSE]

Bodies == {EnvelopeBody, ObjectBody, ArrayBody, InvalidBody}

StatusOK == 200

\* the status codes a response can carry: OK and one that is not
Statuses == {StatusOK, 400}

\* json.Unmarshal(response, &errorResp) succeeds on a JSON object
UnmarshalsAsErrorResponse(body) == body.json = "object"

\* err == nil && errorResp.Result == errorStatus
IsErrorEnvelopeNever(body) == FALSE

IsErrorEnvelope(body) == UnmarshalsAsErrorResponse(body) /\ body.result = "error"

\* json.Unmarshal(response, &v) for v of Go type t: a struct takes an object
\* (members it does not know are skipped), a slice takes an array
Unmarshals(body, t) ==
  IF IsSliceType(t) THEN body.json = "array" ELSE body.json = "object"

NilValue == [type |-> "nil", zero |-> TRUE]

Value(t, body) == [type |-> t, zero |-> ~body.data]

Result(val, err) == [val |-> val, err |-> err]

NoResult == Result(NilValue, Nil)

\* --------------------------------------------------- a caller's locals
NoURL == [base |-> "", path |-> ""]

NoRequest ==
  [method |-> "", url |-> NoURL, body |-> "", hdr |-> NoHeaders, proxy |-> "", client |-> ""]

NoResponse == [body |-> NoBody, err |-> Nil]

\* no return of DoTimeout yet
NoOutcome == [fail |-> FALSE, status |-> 0, body |-> NoBody]

\* op: the operation in progress or last returned.  Of Wait and TryAcquire:
\* rl, the limiter; wakeAt, when time.After fires; ok and res, the result.
\* Of a domain operation: leg, the number of the transport request it is
\* at; url, nonce, ovr, the request it built; lim, the limiter the
\* transport selected; dflt, the default headers it read, keys, those it
\* has still to read, and pool, its copy of the proxy list; req, the request
\* put on the wire; tres, what the transport returned; out, what the
\* operation returned.  Of GetAllSymbolDetails: symbols, the list fetched;
\* details, the symbols whose details are in allDetails, the slice it
\* returns; errs (history), the error of each call it made, in order.  Of
\* the conversion of a symbol to a trading pair: symbol and pair, strings
\* being sequences of characters.  History: whether a credential was empty at
\* invocation, whether Wait slept, when the request was sent, the number of
\* network calls made, and wire, what the last of them came back with.
NoFrame ==
  [op |-> "none", rl |-> 0, wakeAt |-> 0, ok |-> FALSE, res |-> "",
   leg |-> 0, url |-> NoURL, nonce |-> -1, ovr |-> NoHeaders, lim |-> 0,
   req |-> NoRequest, tres |-> NoResponse, out |-> NoResult,
   dflt |-> NoHeaders, keys |-> {}, pool |-> <<>>,
   symbols |-> <<>>, details |-> <<>>, errs |-> <<>>, wire |-> NoOutcome,
   symbol |-> <<>>, pair |-> [Symbol |-> <<>>, BaseAsset |-> <<>>, QuoteAsset |-> <<>>],
   emptyCreds |-> FALSE, slept |-> FALSE, sentAt |-> -1, netCalls |-> 0,
   resp |-> 0, held |-> 0]

\* What the domain operation makes of the transport's return for one of
\* its requests.  The private operations probe the body for the error
\* envelope before deserializing it; the public ones deserialize it.
Handle(op, leg, tres) ==
  IF tres.err # Nil
    THEN Result(NilValue, Wrap(ErrNetworkError, tres.err))
  ELSE IF op \in PrivateOps /\ IsErrorEnvelope(tres.body)
    THEN Result(NilValue, APIError(tres.body.reason, tres.body.message))
  ELSE IF ~Unmarshals(tres.body, LegType(op, leg))
    THEN Result(NilValue, Wrap(ErrDataParsingError, Foreign("json")))
  ELSE Result(Value(SuccessType(op), tres.body), Nil)

\* The transport returns tres to the operation of frame F: the operation
\* returns, or goes on to its next request.
Delivered(F, tres) ==
  IF Handle(F.op, F.leg, tres).err = Nil /\ F.leg < Legs(F.op)
    THEN [F EXCEPT !.tres = tres, !.leg = F.leg + 1,
                   !.url = [base |-> F.url.base, path |-> LegEndpoint(F.op, F.leg + 1)]]
    ELSE [F EXCEPT !.tres = tres, !.out = Handle(F.op, F.leg, tres)]

AfterDelivery(F, tres) ==
  IF Handle(F.op, F.leg, tres).err = Nil /\ F.leg < Legs(F.op) THEN "r_select" ELSE "idle"

\* return nil, errors.Wrap(errors.ErrRateLimit, "rate limit error", err)
RateLimited(err) == [body |-> NoBody, err |-> Wrap(ErrRateLimit, Foreign(err))]

\* The locals once Wait has returned err: to a direct caller, or to the
\* transport, which goes on to send the request when err is nil and
\* otherwise returns the wrapped error to the operation.
WaitReturned(F, err) ==
  IF F.op = "Wait" THEN [NoFrame EXCEPT !.op = "Wait", !.res = err]
  ELSE IF err = "nil" THEN [F EXCEPT !.res = err, !.rl = 0, !.wakeAt = 0]
  ELSE Delivered([F EXCEPT !.res = err, !.rl = 0, !.wakeAt = 0], RateLimited(err))

\* Where the caller continues once Wait has returned err.
AfterWait(F, err) ==
  IF F.op = "Wait" THEN "idle"
  ELSE IF err = "nil" THEN "r_send"
  ELSE AfterDelivery(F, RateLimited(err))

\* ------------------------------------------------ RateLimiter.TryAcquire
StartTryAcquire(c) ==
  /\ Running /\ pc[c] = "idle" /\ calls < MaxCalls
  /\ \E l \in DOMAIN limiters :
       frame' = [frame EXCEPT ![c] = [NoFrame EXCEPT !.op = "TryAcquire", !.rl = l]]
  /\ pc' = [pc EXCEPT ![c] = "t_lock"]
  /\ calls' = calls + 1
  /\ UNCHANGED <<now, fatal, limiters, ctx, stats, clientVars>>

\* rl.mu.Lock()
TryLock(c) ==
  /\ Running /\ pc[c] = "t_lock"
  /\ ~limiters[frame[c].rl].mu
  /\ limiters' = [limiters EXCEPT ![frame[c].rl] = Locked(@)]
  /\ pc' = [pc EXCEPT ![c] = "t_refill"]
  /\ UNCHANGED <<now, fatal, frame, ctx, stats, calls, clientVars>>

\* the refill block and the test rl.tokens <= 0
TryRefill(c) ==
  /\ Running /\ pc[c] = "t_refill"
  /\ LET l == frame[c].rl
         L == limiters[l]
     IN IF RefillPanics(L, now)
          THEN /\ fatal' = "integer divide by zero"
               /\ limiters' = [limiters EXCEPT ![l] = Unlocked(L)]
               /\ UNCHANGED <<pc, frame>>
          ELSE /\ limiters' = [limiters EXCEPT ![l] = Refill(L, now)]
               /\ frame' = [frame EXCEPT ![c].ok = Refill(L, now).tokens > 0]
               /\ pc' = [pc EXCEPT ![c] =
                           IF Refill(L, now).tokens <= 0 THEN "t_return" ELSE "t_consume"]
               /\ UNCHANGED fatal
  /\ UNCHANGED <<now, ctx, stats, calls, clientVars>>

\* rl.tokens--
TryConsume(c) ==
  /\ Running /\ pc[c] = "t_consume"
  /\ limiters' = [limiters EXCEPT ![frame[c].rl] = Consumed(@)]
  /\ stats' = [stats EXCEPT ![frame[c].rl].window = limiters[frame[c].rl].lastRefill]
  /\ pc' = [pc EXCEPT ![c] = "t_return"]
  /\ UNCHANGED <<now, fatal, frame, ctx, calls, clientVars>>

\* the deferred rl.mu.Unlock() and the return of the result
TryReturn(c) ==
  /\ Running /\ pc[c] = "t_return"
  /\ LET l == frame[c].rl
         L == limiters[l]
     IN IF UnlockFaults(L)
          THEN /\ fatal' = "sync: unlock of unlocked mutex"
               /\ UNCHANGED <<limiters, pc, frame, stats>>
          ELSE /\ limiters' = [limiters EXCEPT ![l] = Unlocked(L)]
               /\ frame' = [frame EXCEPT ![c] = [NoFrame EXCEPT !.op = "TryAcquire",
                                    !.res = IF frame[c].ok THEN "true" ELSE "false"]]
               /\ stats' = [stats EXCEPT ![l] = Returned(@, "TryAcquire", frame[c].ok, now)]
               /\ pc' = [pc EXCEPT ![c] = "idle"]
               /\ UNCHANGED fatal
  /\ UNCHANGED <<now, ctx, calls, clientVars>>

\* ------------------------------------------------------ RateLimiter.Wait
StartWait(c) ==
  /\ Running /\ pc[c] = "idle" /\ calls < MaxCalls
  /\ \E l \in DOMAIN limiters :
       frame' = [frame EXCEPT ![c] = [NoFrame EXCEPT !.op = "Wait", !.rl = l]]
  /\ ctx' = [ctx EXCEPT ![c] = "live"]
  /\ pc' = [pc EXCEPT ![c] = "w_lock"]
  /\ calls' = calls + 1
  /\ UNCHANGED <<now, fatal, limiters, stats, clientVars>>

\* rl.mu.Lock()
WaitLock(c) ==
  /\ Running /\ pc[c] = "w_lock"
  /\ ~limiters[frame[c].rl].mu
  /\ limiters' = [limiters EXCEPT ![frame[c].rl] = Locked(@)]
  /\ pc' = [pc EXCEPT ![c] = "w_refill"]
  /\ UNCHANGED <<now, fatal, frame, ctx, stats, calls, clientVars>>

\* the refill block, the test rl.tokens <= 0 and the computation of waitTime
WaitRefill(c) ==
  /\ Running /\ pc[c] = "w_refill"
  /\ LET l == frame[c].rl
         L == limiters[l]
     IN IF RefillPanics(L, now)
          THEN /\ fatal' = "integer divide by zero"
               /\ limiters' = [limiters EXCEPT ![l] = Unlocked(L)]
               /\ UNCHANGED <<pc, frame>>
          ELSE /\ limiters' = [limiters EXCEPT ![l] = Refill(L, now)]
               /\ IF Refill(L, now).tokens <= 0
                    THEN /\ frame' = [frame EXCEPT ![c].wakeAt = now + WaitTime(Refill(L, now), now),
                                                    ![c].slept = TRUE]
                         /\ pc' = [pc EXCEPT ![c] = "w_unlock"]
                    ELSE /\ pc' = [pc EXCEPT ![c] = "w_consume"]
                         /\ UNCHANGED frame
               /\ UNCHANGED fatal
  /\ UNCHANGED <<now, ctx, stats, calls, clientVars>>

\* the mutex as the sleeper leaves it
LockedAsleep(L) == L

UnlockedToSleep(L) == Unlocked(L)

\* rl.mu.Unlock() before the select
WaitUnlock(c) ==
  /\ Running /\ pc[c] = "w_unlock"
  /\ LET l == frame[c].rl
         L == limiters[l]
     IN IF UnlockFaults(L)
          THEN /\ fatal' = "sync: unlock of unlocked mutex"
               /\ UNCHANGED <<limiters, pc>>
          ELSE /\ limiters' = [limiters EXCEPT ![l] = UnlockedToSleep(L)]
               /\ pc' = [pc EXCEPT ![c] = "w_select"]
               /\ UNCHANGED fatal
  /\ UNCHANGED <<now, frame, ctx, stats, calls, clientVars>>

\* case <-ctx.Done(): return ctx.Err(), and the deferred rl.mu.Unlock() runs
WaitCtxDone(c) ==
  /\ Running /\ pc[c] = "w_select"
  /\ ctx[c] \in CtxErrors
  /\ LET l == frame[c].rl
         L == limiters[l]
     IN IF UnlockFaults(L)
          THEN /\ fatal' = "sync: unlock of unlocked mutex"
               /\ UNCHANGED <<limiters, pc, frame, stats>>
          ELSE /\ limiters' = [limiters EXCEPT ![l] = Unlocked(L)]
               /\ frame' = [frame EXCEPT ![c] = WaitReturned(@, ctx[c])]
               /\ stats' = [stats EXCEPT ![l] = Returned(@, "Wait", FALSE, now)]
               /\ pc' = [pc EXCEPT ![c] = AfterWait(frame[c], ctx[c])]
               /\ UNCHANGED fatal
  /\ UNCHANGED <<now, ctx, calls, clientVars>>

\* case <-time.After(waitTime)
WaitTimer(c) ==
  /\ Running /\ pc[c] = "w_select"
  /\ now >= frame[c].wakeAt
  /\ pc' = [pc EXCEPT ![c] = "w_relock"]
  /\ UNCHANGED <<now, fatal, limiters, frame, ctx, stats, calls, clientVars>>

\* rl.mu.Lock() after the sleep
WaitRelock(c) ==
  /\ Running /\ pc[c] = "w_relock"
  /\ ~limiters[frame[c].rl].mu
  /\ limiters' = [limiters EXCEPT ![frame[c].rl] = Locked(@)]
  /\ pc' = [pc EXCEPT ![c] = "w_grant"]
  /\ UNCHANGED <<now, fatal, frame, ctx, stats, calls, clientVars>>

\* rl.tokens = 1; rl.lastRefill = time.Now()
WaitGrant(c) ==
  /\ Running /\ pc[c] = "w_grant"
  /\ limiters' = [limiters EXCEPT ![frame[c].rl] = Granted(@, now)]
  /\ pc' = [pc EXCEPT ![c] = "w_consume"]
  /\ UNCHANGED <<now, fatal, frame, ctx, stats, calls, clientVars>>

\* rl.tokens--
WaitConsume(c) ==
  /\ Running /\ pc[c] = "w_consume"
  /\ limiters' = [limiters EXCEPT ![frame[c].rl] = Consumed(@)]
  /\ stats' = [stats EXCEPT ![frame[c].rl].window = limiters[frame[c].rl].lastRefill]
  /\ pc' = [pc EXCEPT ![c] = "w_return"]
  /\ UNCHANGED <<now, fatal, frame, ctx, calls, clientVars>>

\* return nil, and the deferred rl.mu.Unlock() runs
WaitReturn(c) ==
  /\ Running /\ pc[c] = "w_return"
  /\ LET l == frame[c].rl
         L == limiters[l]
     IN IF UnlockFaults(L)
          THEN /\ fatal' = "sync: unlock of unlocked mutex"
               /\ UNCHANGED <<limiters, pc, frame, stats>>
          ELSE /\ limiters' = [limiters EXCEPT ![l] = Unlocked(L)]
               /\ frame' = [frame EXCEPT ![c] = WaitReturned(@, "nil")]
               /\ stats' = [stats EXCEPT ![l] = Returned(@, "Wait", TRUE, now)]
               /\ pc' = [pc EXCEPT ![c] = AfterWait(frame[c], "nil")]
               /\ UNCHANGED fatal
  /\ UNCHANGED <<now, ctx, calls, clientVars>>

\* ----------------------------------------------------------- environment
\* the caller's context is cancelled, or its deadline passes
CtxDone(c) ==
  /\ Running /\ ctx[c] = "live" /\ pc[c] # "idle" /\ frame[c].op # "TryAcquire"
  /\ \E e \in CtxErrors : ctx' = [ctx EXCEPT ![c] = e]
  /\ UNCHANGED <<now, fatal, limiters, pc, frame, stats, calls, clientVars>>

\* Time passes: up to the horizon, and beyond it for as long as a sleeper
\* has not been woken.
Tick ==
  /\ Running
  /\ now < MaxTime \/ \E c \in Callers : pc[c] = "w_select" /\ frame[c].wakeAt > now
  /\ now' = now + 1
  /\ UNCHANGED <<fatal, limiters, pc, frame, ctx, stats, calls, clientVars>>

\* ------------------------------------------------------------ NewGemini
baseURLProd == "https://api.gemini.com"
baseURLSandbox == "https://api.sandbox.gemini.com"
userAgent == "CEX-SDK/1.0"

\* time.Minute in clock units
Minute == 1
DefaultPublicRequests == 120
DefaultPrivateRequests == 600

RateLimit(requests, interval) == [Requests |-> requests, Interval |-> interval]

\* *exchange.Config; isNil for the nil pointer.  Sandbox, Headers, Proxies
\* and HTTPClient have their zero values unless set.
Config(key, secret, testnet, public, private) ==
  [isNil |-> FALSE, APIKey |-> key, SecretKey |-> secret, Testnet |-> testnet,
   Public |-> public, Private |-> private,
   Sandbox |-> FALSE, Headers |-> NoHeaders, Proxies |-> <<>>, HTTPClient |-> ""]

NilConfig == [Config("", "", FALSE, RateLimit(0, 0), RateLimit(0, 0)) EXCEPT !.isNil = TRUE]

\* the limiter NewGemini installs for a class
ConfiguredLimiter(limit, defaultRequests, t) ==
  IF limit.Requests > 0
    THEN NewRateLimiter(limit.Requests, limit.Interval, t)
    ELSE NewRateLimiter(defaultRequests, Minute, t)

\* The client NewGemini(config) returns at time t: the Gemini fields, the
\* transport's fields and the limiters constructed (public first).
NewGemini(config, t) ==
  [baseURL |-> IF ~config.isNil /\ config.Testnet THEN baseURLSandbox ELSE baseURLProd,
   apiKey |-> IF config.isNil THEN "" ELSE config.APIKey,
   apiSecret |-> IF config.isNil THEN "" ELSE config.SecretKey,
   sandbox |-> IF config.isNil THEN FALSE ELSE config.Testnet,
   limiters |-> IF config.isNil THEN <<>>
                ELSE <<ConfiguredLimiter(config.Public, DefaultPublicRequests, t),
                       ConfiguredLimiter(config.Private, DefaultPrivateRequests, t)>>,
   publicLimiter |-> IF config.isNil THEN 0 ELSE 1,
   privateLimiter |-> IF config.isNil THEN 0 ELSE 2,
   headers |-> MergeHeaders(NoHeaders,
                 [k \in {"User-Agent", "Content-Type"} |->
                    IF k = "User-Agent" THEN userAgent ELSE "application/json"]),
   proxies |-> <<>>,
   customClient |-> IF config.isNil THEN "" ELSE config.HTTPClient]

\* ------------------------------------------------------ HTTPClient.mu
\* sync.RWMutex: Lock waits for the writer and the readers to leave, RLock
\* for the writer.
Unheld == [w |-> FALSE, r |-> 0]

CanLock(m) == ~m.w /\ m.r = 0

CanRLockAlways(m) == TRUE

CanRLock(m) == ~m.w

\* ------------------------------------------- the configuring goroutine
\* pc: its position; op: the setter it is in.  The locals of the setter:
\* h, the map Gemini.SetHeaders was called with, and hdr, the map it passes
\* to the transport; list, the argument of SetProxies; flag, that of
\* SetSandbox; client, that of SetHTTPClient; apiType, requests and
\* interval, those of SetRateLimit; todo, the keys or indexes
\* still to store.  History: before, the default headers when SetHeaders
\* was called; n, the setter calls made; toggled, whether SetSandbox was
\* called.
NoSetter ==
  [pc |-> "idle", op |-> "none", h |-> NoHeaders, hdr |-> NoHeaders, list |-> <<>>,
   flag |-> FALSE, client |-> "", apiType |-> "", requests |-> 0, interval |-> 0,
   todo |-> {}, before |-> NoHeaders, n |-> 0, toggled |-> FALSE,
   key |-> "", secret |-> ""]

\* ------------------------------------------------- Gemini.SetHeaders
\* headers[k] of a Go map: "" for a missing key
Lookup(h, k) == IF k \in DOMAIN h THEN h[k] ELSE ""

\* the map Gemini.SetHeaders passes on to the transport
WithEssentialHeaders(h) ==
  [k \in (DOMAIN h) \cup {"User-Agent", "Content-Type"} |->
     IF k = "User-Agent" /\ Lookup(h, k) = "" THEN userAgent
     ELSE IF k = "Content-Type" /\ Lookup(h, k) = "" THEN "application/json"
     ELSE h[k]]

\* Gemini.SetHeaders(h): HTTPClient.SetHeaders merges under the write lock
SetHeaders(h) ==
  /\ Running /\ CanLock(mu)
  /\ headers' = MergeHeaders(headers, WithEssentialHeaders(h))
  /\ headers' # headers
  /\ UNCHANGED <<now, fatal, limiters, pc, frame, ctx, stats, calls,
                 publicLimiter, privateLimiter, proxies, customClient, mu,
                 geminiVars, setupVars, poolVars>>

\* ---------------------------------------------- the private operations
\* g.apiKey == "", g.apiSecret == ""
IsEmptyNever(str) == FALSE

IsEmpty(str) == str = ""

InvalidInput == Result(NilValue, New(ErrInvalidInput))

\* The operation is invoked; the first operand of its guard reads g.apiKey.
StartPrivate(c, op) ==
  /\ Running /\ pc[c] = "idle" /\ calls < MaxRequests
  /\ calls' = calls + 1
  /\ ctx' = [ctx EXCEPT ![c] = "live"]
  /\ LET F == [NoFrame EXCEPT !.op = op, !.leg = 1,
                              !.emptyCreds = (apiKey = "" \/ apiSecret = "")]
     IN IF IsEmpty(apiKey)
          THEN /\ frame' = [frame EXCEPT ![c] = [F EXCEPT !.out = InvalidInput]]
               /\ UNCHANGED pc
          ELSE /\ frame' = [frame EXCEPT ![c] = F]
               /\ pc' = [pc EXCEPT ![c] = "p_secret"]
  /\ UNCHANGED <<now, fatal, limiters, stats, clientVars>>

\* the second operand of the guard reads g.apiSecret
PrivateGuard(c) ==
  /\ Running /\ pc[c] = "p_secret"
  /\ IF IsEmpty(apiSecret)
       THEN /\ frame' = [frame EXCEPT ![c].out = InvalidInput]
            /\ pc' = [pc EXCEPT ![c] = "idle"]
       ELSE /\ pc' = [pc EXCEPT ![c] = "p_url"]
            /\ UNCHANGED frame
  /\ UNCHANGED <<now, fatal, limiters, ctx, stats, calls, clientVars>>

\* url := g.baseURL + endpoint; nonce := time.Now().UnixNano()
PrivateURL(c) ==
  /\ Running /\ pc[c] = "p_url"
  /\ frame' = [frame EXCEPT ![c].url = [base |-> baseURL, path |-> Endpoint(frame[c].op)],
                            ![c].nonce = now]
  /\ pc' = [pc EXCEPT ![c] = "p_sign"]
  /\ UNCHANGED <<now, fatal, limiters, ctx, stats, calls, clientVars>>

\* payload and signature (reads g.apiSecret), then the header map (reads
\* g.apiKey)
PrivateSign(c) ==
  /\ Running /\ pc[c] = "p_sign"
  /\ LET payload == Payload(Endpoint(frame[c].op), frame[c].nonce)
     IN frame' = [frame EXCEPT ![c].ovr =
                    PrivateHeaders("", payload, Signature(apiSecret, payload))]
  /\ pc' = [pc EXCEPT ![c] = "p_headers"]
  /\ UNCHANGED <<now, fatal, limiters, ctx, stats, calls, clientVars>>

PrivateHeaderMap(c) ==
  /\ Running /\ pc[c] = "p_headers"
  /\ frame' = [frame EXCEPT ![c].ovr["X-GEMINI-APIKEY"] = apiKey]
  /\ pc' = [pc EXCEPT ![c] = "r_select"]
  /\ UNCHANGED <<now, fatal, limiters, ctx, stats, calls, clientVars>>

\* ----------------------------------------------- the public operations
\* The operation is invoked and builds the URL of its first request.
StartPublic(c, op) ==
  /\ Running /\ pc[c] = "idle" /\ calls < MaxRequests
  /\ calls' = calls + 1
  /\ ctx' = [ctx EXCEPT ![c] = "live"]
  /\ frame' = [frame EXCEPT ![c] =
                 [NoFrame EXCEPT !.op = op, !.leg = 1,
                                 !.url = [base |-> baseURL, path |-> LegEndpoint(op, 1)]]]
  /\ pc' = [pc EXCEPT ![c] = "r_select"]
  /\ UNCHANGED <<now, fatal, limiters, stats, clientVars>>

\* ------------------------------- HTTPClient.request, requestWithHeaders
\* rateLimiter = c.publicLimiter or c.privateLimiter, read under RLock
ReqSelect(c) ==
  /\ Running /\ pc[c] = "r_select" /\ CanRLock(mu)
  /\ LET lim == IF frame[c].op \in PrivateOps THEN privateLimiter ELSE publicLimiter
     IN /\ frame' = [frame EXCEPT ![c].lim = lim, ![c].rl = lim]
        /\ pc' = [pc EXCEPT ![c] = IF lim = 0 THEN "r_send" ELSE "w_lock"]
  /\ UNCHANGED <<now, fatal, limiters, ctx, stats, calls, clientVars>>

\* The request is built (method, URL, nil body, the default headers read
\* under RLock and then, for requestWithHeaders, the overrides), a proxy is
\* picked from the snapshot of the pool, and DoTimeout is entered.
ReqSend(c) ==
  /\ Running /\ pc[c] = "r_send" /\ CanRLock(mu)
  /\ \E proxy \in (IF proxies = <<>> THEN {""} ELSE {proxies[i] : i \in DOMAIN proxies}) :
       frame' = [frame EXCEPT
         ![c].req = [method |-> IF frame[c].op \in PrivateOps THEN "POST" ELSE "GET",
                     url |-> frame[c].url,
                     body |-> "",
                     hdr |-> MergeHeaders(headers, frame[c].ovr),
                     proxy |-> proxy,
                     client |-> "fasthttp"],
         ![c].dflt = headers,
         ![c].pool = proxies,
         ![c].sentAt = now,
         ![c].netCalls = @ + 1]
  /\ pc' = [pc EXCEPT ![c] = "r_inflight"]
  /\ UNCHANGED <<now, fatal, limiters, ctx, stats, calls, clientVars>>

\* What DoTimeout can come back with.
TransportFailure == [fail |-> TRUE, status |-> 0, body |-> NoBody]

Response(status, body) == [fail |-> FALSE, status |-> status, body |-> body]

Outcomes ==
  {TransportFailure}
    \cup {Response(StatusOK, b) : b \in Bodies}
    \cup {Response(st, b) : st \in Statuses \ {StatusOK}, b \in {EnvelopeBody, InvalidBody}}

\* the transport's return for an outcome of DoTimeout
TransportReturnAnyStatus(o) ==
  IF o.fail THEN [body |-> NoBody, err |-> Wrap(ErrNetworkError, Foreign("transport"))]
  ELSE [body |-> o.body, err |-> Nil]

TransportReturn(o) ==
  IF o.fail THEN [body |-> NoBody, err |-> Wrap(ErrNetworkError, Foreign("transport"))]
  ELSE IF o.status # StatusOK THEN [body |-> NoBody, err |-> HTTPStatusError(o.status, o.body)]
  ELSE [body |-> o.body, err |-> Nil]

\* DoTimeout returns; the status is checked; the operation handles the
\* return.
NetResponse(c) ==
  /\ Running /\ pc[c] = "r_inflight"
  /\ \E o \in Outcomes :
       /\ frame' = [frame EXCEPT ![c] = Delivered([@ EXCEPT !.wire = o], TransportReturn(o))]
       /\ pc' = [pc EXCEPT ![c] = AfterDelivery(frame[c], TransportReturn(o))]
  /\ UNCHANGED <<now, fatal, limiters, ctx, stats, calls, clientVars>>

\* ------------------------------------------- the limiter used directly
\* One limiter, constructed at time 0 with any capacity and interval the
\* constructor accepts, shared by callers of Wait and TryAcquire.
InitLimiter ==
  /\ now = 0 /\ fatal = ""
  /\ \E n \in Caps, i \in Intervals : limiters = <<NewRateLimiter(n, i, 0)>>
  /\ pc = [c \in Callers |-> "idle"]
  /\ frame = [c \in Callers |-> NoFrame]
  /\ ctx = [c \in Callers |-> "live"]
  /\ stats = <<NewStats(0)>>
  /\ calls = 0
  /\ publicLimiter = 0 /\ privateLimiter = 0
  /\ headers = NoHeaders /\ proxies = <<>>
  /\ customClient = "" /\ mu = Unheld
  /\ apiKey = "" /\ apiSecret = "" /\ baseURL = "" /\ sandbox = FALSE
  /\ cfg = NilConfig /\ setter = NoSetter /\ responses = <<>>

LimiterStep(c) ==
  \/ StartTryAcquire(c) \/ TryLock(c) \/ TryRefill(c) \/ TryConsume(c) \/ TryReturn(c)
  \/ StartWait(c) \/ WaitLock(c) \/ WaitRefill(c) \/ WaitUnlock(c) \/ WaitCtxDone(c)
  \/ WaitTimer(c) \/ WaitRelock(c) \/ WaitGrant(c) \/ WaitConsume(c) \/ WaitReturn(c)
  \/ CtxDone(c)

NextLimiter == Tick \/ \E c \in Callers : LimiterStep(c)

SpecLimiter == InitLimiter /\ [][NextLimiter]_vars

\* ------------------------------------------------------------ the client
NoLimit == RateLimit(0, 0)

Configs ==
  {NilConfig,
   Config("", "", FALSE, NoLimit, NoLimit),
   Config("key", "", FALSE, NoLimit, NoLimit),
   Config("", "secret", FALSE, NoLimit, NoLimit),
   Config("key", "secret", TRUE, NoLimit, NoLimit)}
    \cup {Config("key", "secret", FALSE, RateLimit(1, i), RateLimit(1, i)) : i \in 1..MaxInterval}

\* the maps passed to Gemini.SetHeaders
HeaderInputs ==
  {[k \in {"X-GEMINI-APIKEY", "Content-Type", "Content-Length"} |->
      CASE k = "X-GEMINI-APIKEY" -> "other-key"
        [] k = "Content-Type" -> "application/xml"
        [] OTHER -> "99"]}

\* The state NewGemini(config) leaves, at time 0.
InitClient(config) ==
  LET g == NewGemini(config, 0)
  IN /\ now = 0 /\ fatal = ""
     /\ limiters = g.limiters
     /\ stats = [l \in DOMAIN g.limiters |-> NewStats(0)]
     /\ publicLimiter = g.publicLimiter /\ privateLimiter = g.privateLimiter
     /\ headers = g.headers /\ proxies = g.proxies
     /\ customClient = g.customClient /\ mu = Unheld
     /\ cfg = config /\ setter = NoSetter /\ responses = <<>>
     /\ apiKey = g.apiKey /\ apiSecret = g.apiSecret
     /\ baseURL = g.baseURL /\ sandbox = g.sandbox
     /\ pc = [c \in Callers |-> "idle"]
     /\ frame = [c \in Callers |-> NoFrame]
     /\ ctx = [c \in Callers |-> "live"]
     /\ calls = 0

Init == \E config \in Configs : InitClient(config)

\* the steps of a request in the transport, Wait included
RequestStep(c) ==
  \/ ReqSelect(c) \/ ReqSend(c) \/ NetResponse(c)
  \/ WaitLock(c) \/ WaitRefill(c) \/ WaitUnlock(c) \/ WaitCtxDone(c)
  \/ WaitTimer(c) \/ WaitRelock(c) \/ WaitGrant(c) \/ WaitConsume(c) \/ WaitReturn(c)

PrivateStep(c) ==
  \/ \E op \in PrivateOps : StartPrivate(c, op)
  \/ PrivateGuard(c) \/ PrivateURL(c) \/ PrivateSign(c) \/ PrivateHeaderMap(c)

PublicStep(c) == \E op \in PublicOps : StartPublic(c, op)

\* One goroutine issues domain operations one after the other, while the
\* default headers are reconfigured, contexts end and time passes.
Solo == {1}

Next ==
  \/ Tick
  \/ \E h \in HeaderInputs : SetHeaders(h)
  \/ \E c \in Solo : PrivateStep(c) \/ PublicStep(c) \/ RequestStep(c) \/ CtxDone(c)

Spec == Init /\ [][Next]_vars

\* ------------------------------------ two requests against one token
\* A client whose public class is limited to 1 request per interval; the
\* callers issue two single-request public operations between them, one
\* after the other or concurrently, with contexts that never end.
BlockingOps == {op \in PublicOps : Legs(op) = 1}

InitBlocking ==
  \E i \in 1..MaxInterval : InitClient(Config("", "", FALSE, RateLimit(1, i), NoLimit))

\* the steps a request takes once it has been issued
Progress(c) ==
  \/ ReqSelect(c) \/ ReqSend(c) \/ NetResponse(c)
  \/ WaitLock(c) \/ WaitRefill(c) \/ WaitUnlock(c)
  \/ WaitTimer(c) \/ WaitRelock(c) \/ WaitGrant(c) \/ WaitConsume(c) \/ WaitReturn(c)

NextBlocking ==
  \/ Tick
  \/ \E c \in Callers :
       \/ calls < 2 /\ \E op \in BlockingOps : StartPublic(c, op)
       \/ Progress(c)

\* Time passes, a runnable goroutine runs, a free mutex is acquired, a
\* fired timer is received and DoTimeout returns.
SpecBlocking ==
  /\ InitBlocking /\ [][NextBlocking]_vars
  /\ WF_vars(Tick)
  /\ \A c \in Callers : WF_vars(Progress(c))

\* ------------------------------------------- concurrent private calls
\* A client with credentials whose private class is limited to 1 request
\* per interval; the callers place and cancel orders concurrently, with
\* contexts that never end.
PairOps == {"PlaceOrder", "CancelOrder"}

InitPair ==
  \E i \in 1..MaxInterval : InitClient(Config("key", "secret", FALSE, NoLimit, RateLimit(1, i)))

\* the steps of a private operation up to its transport request
Build(c) == PrivateGuard(c) \/ PrivateURL(c) \/ PrivateSign(c) \/ PrivateHeaderMap(c)

NextPair ==
  \/ Tick
  \/ \E c \in Callers :
       \/ \E op \in PairOps : StartPrivate(c, op)
       \/ Build(c)
       \/ Progress(c)

SpecPair == InitPair /\ [][NextPair]_vars

\* ------------------------------------------------ reconfiguring a client
MaxSets == 2

MaxLimiters == 4

APITypes == {"public", "private"}

\* what every step of the configuring goroutine leaves alone
SetterFrame == UNCHANGED <<now, fatal, limiters, pc, frame, ctx, stats, calls, cfg, responses>>

\* the setter returns
SetterReturned == [NoSetter EXCEPT !.n = setter.n + 1, !.toggled = setter.toggled]

\* if sandbox { g.baseURL = baseURLSandbox } else { g.baseURL = baseURLProd }
BaseURLAlwaysProd(b) == baseURLProd

BaseURLFor(b) == IF b THEN baseURLSandbox ELSE baseURLProd

\* Gemini.SetSandbox(b): g.sandbox = sandbox
SetSandbox(b) ==
  /\ Running /\ setter.pc = "idle" /\ setter.n < MaxSets
  /\ sandbox' = b
  /\ setter' = [setter EXCEPT !.pc = "sb_url", !.op = "SetSandbox", !.flag = b,
                              !.toggled = TRUE]
  /\ SetterFrame
  /\ UNCHANGED <<transportVars, apiKey, apiSecret, baseURL>>

\* the assignment to g.baseURL, and the return
SetSandboxURL ==
  /\ Running /\ setter.pc = "sb_url"
  /\ baseURL' = BaseURLFor(setter.flag)
  /\ setter' = SetterReturned
  /\ SetterFrame
  /\ UNCHANGED <<transportVars, apiKey, apiSecret, sandbox>>

\* Gemini.SetHeaders(h) is called: the essential headers are added to the
\* caller's map, which is passed to HTTPClient.SetHeaders.
CallSetHeaders(h) ==
  /\ Running /\ setter.pc = "idle" /\ setter.n < MaxSets
  /\ setter' = [setter EXCEPT !.pc = "s_lock", !.op = "SetHeaders", !.h = h,
                              !.hdr = WithEssentialHeaders(h), !.before = headers]
  /\ SetterFrame
  /\ UNCHANGED <<transportVars, geminiVars>>

\* Gemini.SetProxies(p) calls HTTPClient.SetProxies(p)
CallSetProxies(p) ==
  /\ Running /\ setter.pc = "idle" /\ setter.n < MaxSets
  /\ setter' = [setter EXCEPT !.pc = "s_lock", !.op = "SetProxies", !.list = p]
  /\ SetterFrame
  /\ UNCHANGED <<transportVars, geminiVars>>

\* Gemini.SetHTTPClient(client) calls HTTPClient.SetCustomHTTPClient(client)
CallSetHTTPClient(client) ==
  /\ Running /\ setter.pc = "idle" /\ setter.n < MaxSets
  /\ setter' = [setter EXCEPT !.pc = "s_lock", !.op = "SetCustomHTTPClient",
                              !.client = client]
  /\ SetterFrame
  /\ UNCHANGED <<transportVars, geminiVars>>

\* c.mu.Lock() of a setter of the transport
ConfigLock ==
  /\ Running /\ setter.pc = "s_lock" /\ CanLock(mu)
  /\ mu' = [mu EXCEPT !.w = TRUE]
  /\ setter' = [setter EXCEPT
       !.pc = CASE setter.op = "SetHeaders" -> "s_range"
                [] setter.op = "SetProxies" -> "s_make"
                [] setter.op = "SetRateLimit" -> "s_limiter"
                [] OTHER -> "s_client",
       !.todo = IF setter.op = "SetHeaders" THEN DOMAIN setter.hdr ELSE {}]
  /\ SetterFrame
  /\ UNCHANGED <<publicLimiter, privateLimiter, headers, proxies, customClient, geminiVars>>

\* one iteration of: for k, v := range headers { c.headers[k] = v }
StoreHeader ==
  /\ Running /\ setter.pc = "s_range"
  /\ \E k \in setter.todo :
       /\ headers' = [x \in (DOMAIN headers) \cup {k} |->
                        IF x = k THEN setter.hdr[k] ELSE headers[x]]
       /\ setter' = [setter EXCEPT !.todo = @ \ {k}]
  /\ SetterFrame
  /\ UNCHANGED <<publicLimiter, privateLimiter, proxies, customClient, mu, geminiVars>>

\* c.proxies = make([]string, len(proxies))
MakeProxies ==
  /\ Running /\ setter.pc = "s_make"
  /\ proxies' = [i \in 1..Len(setter.list) |-> ""]
  /\ setter' = [setter EXCEPT !.pc = "s_copy", !.todo = 1..Len(setter.list)]
  /\ SetterFrame
  /\ UNCHANGED <<publicLimiter, privateLimiter, headers, customClient, mu, geminiVars>>

\* copy(c.proxies, proxies), one element
CopyProxy ==
  /\ Running /\ setter.pc = "s_copy" /\ setter.todo # {}
  /\ LET i == CHOOSE x \in setter.todo : \A y \in setter.todo : x <= y
     IN /\ proxies' = [proxies EXCEPT ![i] = setter.list[i]]
        /\ setter' = [setter EXCEPT !.todo = @ \ {i}]
  /\ SetterFrame
  /\ UNCHANGED <<publicLimiter, privateLimiter, headers, customClient, mu, geminiVars>>

\* c.customClient = client
StoreClient ==
  /\ Running /\ setter.pc = "s_client"
  /\ customClient' = setter.client
  /\ setter' = [setter EXCEPT !.pc = "s_done"]
  /\ SetterFrame
  /\ UNCHANGED <<publicLimiter, privateLimiter, headers, proxies, mu, geminiVars>>

\* Gemini.SetRateLimit(apiType, limit) calls HTTPClient.SetRateLimit
CallSetRateLimit(apiType, requests, interval) ==
  /\ Running /\ setter.pc = "idle" /\ setter.n < MaxSets
  /\ Len(limiters) < MaxLimiters
  /\ setter' = [setter EXCEPT !.pc = "s_lock", !.op = "SetRateLimit", !.apiType = apiType,
                              !.requests = requests, !.interval = interval]
  /\ SetterFrame
  /\ UNCHANGED <<transportVars, geminiVars>>

\* the limiter a call would overwrite, were the old instance reconfigured
InstalledInPlace(heap, requests, interval, t) ==
  Append([l \in DOMAIN heap |-> NewRateLimiter(requests, interval, t)],
         NewRateLimiter(requests, interval, t))

\* NewRateLimiter(requests, interval) allocates; the instances there were
\* are not written.
Installed(heap, requests, interval, t) ==
  Append(heap, NewRateLimiter(requests, interval, t))

\* c.publicLimiter = NewRateLimiter(requests, interval), or c.privateLimiter
StoreLimiter ==
  /\ Running /\ setter.pc = "s_limiter"
  /\ limiters' = Installed(limiters, setter.requests, setter.interval, now)
  /\ stats' = Append(stats, NewStats(now))
  /\ IF setter.apiType = "public"
       THEN publicLimiter' = Len(limiters) + 1 /\ UNCHANGED privateLimiter
       ELSE privateLimiter' = Len(limiters) + 1 /\ UNCHANGED publicLimiter
  /\ setter' = [setter EXCEPT !.pc = "s_done"]
  /\ UNCHANGED <<now, fatal, pc, frame, ctx, calls, cfg, responses, headers, proxies,
                 customClient, mu,
                 geminiVars>>

\* the deferred c.mu.Unlock(), and the return
ConfigUnlock ==
  /\ Running
  /\ \/ setter.pc \in {"s_range", "s_copy"} /\ setter.todo = {}
     \/ setter.pc = "s_done"
  /\ mu' = [mu EXCEPT !.w = FALSE]
  /\ setter' = SetterReturned
  /\ SetterFrame
  /\ UNCHANGED <<publicLimiter, privateLimiter, headers, proxies, customClient, geminiVars>>

\* ---------------------- the transport's read of its configuration
\* what a step of the read leaves alone
ReadFrame ==
  UNCHANGED <<now, fatal, limiters, ctx, stats, calls, publicLimiter, privateLimiter,
              headers, proxies, customClient, geminiVars, setupVars, poolVars>>

\* c.mu.RLock() before the default headers are copied to the request
ReqRLock(c) ==
  /\ Running /\ pc[c] = "r_send" /\ CanRLock(mu)
  /\ mu' = [mu EXCEPT !.r = @ + 1]
  /\ frame' = [frame EXCEPT ![c].keys = DOMAIN headers, ![c].dflt = NoHeaders]
  /\ pc' = [pc EXCEPT ![c] = "r_range"]
  /\ ReadFrame

\* one iteration of: for k, v := range c.headers { req.Header.Set(k, v) }
ReqReadHeader(c) ==
  /\ Running /\ pc[c] = "r_range"
  /\ \E k \in frame[c].keys :
       frame' = [frame EXCEPT
         ![c].dflt = [x \in (DOMAIN frame[c].dflt) \cup {k} |->
                        IF x = k THEN headers[k] ELSE frame[c].dflt[x]],
         ![c].keys = @ \ {k}]
  /\ UNCHANGED <<pc, mu>>
  /\ ReadFrame

\* proxies := make([]string, len(c.proxies)); copy(proxies, c.proxies)
ReqReadProxies(c) ==
  /\ Running /\ pc[c] = "r_range" /\ frame[c].keys = {}
  /\ frame' = [frame EXCEPT ![c].pool = proxies]
  /\ pc' = [pc EXCEPT ![c] = "r_runlock"]
  /\ UNCHANGED mu
  /\ ReadFrame

\* c.mu.RUnlock()
ReqRUnlock(c) ==
  /\ Running /\ pc[c] = "r_runlock"
  /\ mu' = [mu EXCEPT !.r = @ - 1]
  /\ pc' = [pc EXCEPT ![c] = "r_pick"]
  /\ UNCHANGED frame
  /\ ReadFrame

\* The overrides are set, the client is selected (c.client, or one that
\* dials a proxy picked from the copy of the pool) and DoTimeout is entered.
ReqPick(c) ==
  /\ Running /\ pc[c] = "r_pick"
  /\ \E proxy \in (IF frame[c].pool = <<>> THEN {""}
                   ELSE {frame[c].pool[i] : i \in DOMAIN frame[c].pool}) :
       frame' = [frame EXCEPT
         ![c].req = [method |-> IF frame[c].op \in PrivateOps THEN "POST" ELSE "GET",
                     url |-> frame[c].url,
                     body |-> "",
                     hdr |-> MergeHeaders(frame[c].dflt, frame[c].ovr),
                     proxy |-> proxy,
                     client |-> "fasthttp"],
         ![c].sentAt = now,
         ![c].netCalls = @ + 1]
  /\ pc' = [pc EXCEPT ![c] = "r_inflight"]
  /\ UNCHANGED mu
  /\ ReadFrame

\* ------------------------------------- requests of a reconfigured client
\* the configurations the client is constructed from
ConfigInputs ==
  LET plain == Config("key", "secret", FALSE, NoLimit, NoLimit)
  IN {plain,
      [plain EXCEPT !.Testnet = TRUE],
      [plain EXCEPT !.Sandbox = TRUE],
      [plain EXCEPT !.Headers = [k \in {"User-Agent"} |-> "MyTradingBot/1.0"],
                    !.Proxies = <<"proxy-0">>,
                    !.HTTPClient = "configured"]}

\* the maps passed to Gemini.SetHeaders
HeaderMaps ==
  {[k \in {"User-Agent"} |-> "MyTradingBot/1.0"], [k \in {"Accept"} |-> "text/plain"]}

\* the lists passed to Gemini.SetProxies
ProxyLists == {<<>>, <<"proxy-1", "proxy-2">>}

ConfigOps == {"ListSymbols"}

InitConfig == \E config \in ConfigInputs : InitClient(config)

\* the steps of a request up to the read of the configuration, when the
\* limiter has a token
Ready(c) ==
  ReqSelect(c) \/ WaitLock(c) \/ WaitRefill(c) \/ WaitConsume(c) \/ WaitReturn(c)

\* the read of the configuration, and the network call
Send(c) ==
  \/ ReqRLock(c) \/ ReqReadHeader(c) \/ ReqReadProxies(c) \/ ReqRUnlock(c)
  \/ ReqPick(c) \/ NetResponse(c)

Reconfigure ==
  \/ \E b \in BOOLEAN : SetSandbox(b)
  \/ SetSandboxURL
  \/ \E h \in HeaderMaps : CallSetHeaders(h)
  \/ \E p \in ProxyLists : CallSetProxies(p)
  \/ CallSetHTTPClient("installed")
  \/ ConfigLock \/ StoreHeader \/ MakeProxies \/ CopyProxy \/ StoreClient \/ ConfigUnlock

\* One goroutine issues requests while another reconfigures the client,
\* within one unit of the clock.
NextConfig ==
  \/ Reconfigure
  \/ \E c \in Solo : (\E op \in ConfigOps : StartPublic(c, op)) \/ Ready(c) \/ Send(c)

SpecConfig == InitConfig /\ [][NextConfig]_vars

\* ------------------------------------------ MarketAPI.GetAllSymbolDetails
MaxSymbols == 2

Symbols == {"btcusd", "ethusd"}

\* the symbol lists the exchange can answer with
SymbolLists == UNION {[1..n -> Symbols] : n \in 0..MaxSymbols}

\* fmt.Sprintf("%s/v1/symbols/details/%s", baseURL, symbol), the path
DetailEndpoint(symbol) ==
  CASE symbol = "btcusd" -> "/v1/symbols/details/btcusd"
    [] symbol = "ethusd" -> "/v1/symbols/details/ethusd"
    [] OTHER -> "/v1/symbols/details/"

\* if err != nil { continue }; allDetails = append(allDetails, *details)
AppendedAlways(details, symbol, err) == Append(details, symbol)

Appended(details, symbol, err) == IF err # Nil THEN details ELSE Append(details, symbol)

\* return allDetails, nil
AllDetails == Result([type |-> "[]SymbolDetails", zero |-> FALSE], Nil)

\* The operation is invoked, and ListSymbols builds its URL.
StartFanOut(c) ==
  /\ Running /\ pc[c] = "idle" /\ calls < MaxRequests
  /\ calls' = calls + 1
  /\ ctx' = [ctx EXCEPT ![c] = "live"]
  /\ frame' = [frame EXCEPT ![c] =
                 [NoFrame EXCEPT !.op = "GetAllSymbolDetails", !.leg = 1,
                                 !.url = [base |-> baseURL, path |-> Endpoint("ListSymbols")]]]
  /\ pc' = [pc EXCEPT ![c] = "r_select"]
  /\ UNCHANGED <<now, fatal, limiters, stats, clientVars>>

\* The transport returns to ListSymbols, and ListSymbols to the operation,
\* which returns the wrapped error, or the empty slice when no symbol is
\* listed, or enters the loop: GetSymbolDetails builds its URL.
ListSymbolsReturns(c) ==
  /\ Running /\ pc[c] = "r_inflight"
  /\ frame[c].op = "GetAllSymbolDetails" /\ frame[c].leg = 1
  /\ \E o \in Outcomes :
       LET tres == TransportReturn(o)
           inner == Handle("ListSymbols", 1, tres)
           F == [frame[c] EXCEPT !.tres = tres, !.wire = o, !.errs = <<inner.err>>]
       IN IF inner.err # Nil
            THEN /\ frame' = [frame EXCEPT ![c] =
                       [F EXCEPT !.out = Result(NilValue, Wrap(ErrNetworkError, inner.err))]]
                 /\ pc' = [pc EXCEPT ![c] = "idle"]
            ELSE \E syms \in SymbolLists :
                   IF syms = <<>>
                     THEN /\ frame' = [frame EXCEPT ![c] = [F EXCEPT !.out = AllDetails]]
                          /\ pc' = [pc EXCEPT ![c] = "idle"]
                     ELSE /\ frame' = [frame EXCEPT ![c] =
                                [F EXCEPT !.symbols = syms, !.leg = 2,
                                          !.url = [base |-> baseURL,
                                                   path |-> DetailEndpoint(syms[1])]]]
                          /\ pc' = [pc EXCEPT ![c] = "r_select"]
  /\ UNCHANGED <<now, fatal, limiters, ctx, stats, calls, clientVars>>

\* The transport returns to GetSymbolDetails, and GetSymbolDetails to the
\* loop, which skips the symbol or appends its details and goes on to the
\* next symbol, or returns after the last.
DetailReturns(c) ==
  /\ Running /\ pc[c] = "r_inflight"
  /\ frame[c].op = "GetAllSymbolDetails" /\ frame[c].leg > 1
  /\ \E o \in Outcomes :
       LET tres == TransportReturn(o)
           inner == Handle("GetSymbolDetails", 1, tres)
           i == frame[c].leg - 1
           F == [frame[c] EXCEPT
                   !.tres = tres, !.wire = o, !.errs = Append(@, inner.err),
                   !.details = Appended(@, frame[c].symbols[i], inner.err)]
       IN IF i = Len(frame[c].symbols)
            THEN /\ frame' = [frame EXCEPT ![c] = [F EXCEPT !.out = AllDetails]]
                 /\ pc' = [pc EXCEPT ![c] = "idle"]
            ELSE /\ frame' = [frame EXCEPT ![c] =
                       [F EXCEPT !.leg = @ + 1,
                                 !.url = [base |-> baseURL,
                                          path |-> DetailEndpoint(frame[c].symbols[i + 1])]]]
                 /\ pc' = [pc EXCEPT ![c] = "r_select"]
  /\ UNCHANGED <<now, fatal, limiters, ctx, stats, calls, clientVars>>

\* One goroutine calls GetAllSymbolDetails on a client whose limiters have
\* tokens.
InitFanOut ==
  \E testnet \in BOOLEAN : InitClient(Config("", "", testnet, NoLimit, NoLimit))

NextFanOut ==
  \E c \in Solo :
    StartFanOut(c) \/ Ready(c) \/ ReqSend(c) \/ ListSymbolsReturns(c) \/ DetailReturns(c)

SpecFanOut == InitFanOut /\ [][NextFanOut]_vars

\* ---------------------------------------------- HTTPClient.SetRateLimit
\* SetRateLimit(apiType, requests, interval): under the write lock, a new
\* limiter is constructed and installed for the class.
SetRateLimit(apiType, requests, interval) ==
  /\ Running /\ CanLock(mu) /\ Len(limiters) < MaxLimiters
  /\ limiters' = Append(limiters, NewRateLimiter(requests, interval, now))
  /\ stats' = Append(stats, NewStats(now))
  /\ IF apiType = "public"
       THEN publicLimiter' = Len(limiters) + 1 /\ UNCHANGED privateLimiter
       ELSE privateLimiter' = Len(limiters) + 1 /\ UNCHANGED publicLimiter
  /\ UNCHANGED <<now, fatal, pc, frame, ctx, calls, headers, proxies, customClient, mu,
                 geminiVars, setupVars, poolVars>>

\* ------------------------------------- cancelling a request that waits
\* A client whose public class is limited to 1 request per interval and
\* may be reconfigured to a limiter without tokens; the callers issue two
\* ListSymbols between them within one unit of the clock, and their
\* contexts may end.
CancelOps == {"ListSymbols"}

\* the steps of a request that needs no timer to fire
Untimed(c) ==
  \/ ReqSelect(c) \/ ReqSend(c) \/ NetResponse(c)
  \/ WaitLock(c) \/ WaitRefill(c) \/ WaitUnlock(c) \/ WaitCtxDone(c)
  \/ WaitConsume(c) \/ WaitReturn(c)

NextCancel ==
  \/ \E i \in 1..MaxInterval : SetRateLimit("public", 0, i)
  \/ \E c \in Callers :
       \/ calls < 2 /\ \E op \in CancelOps : StartPublic(c, op)
       \/ Untimed(c)
       \/ CtxDone(c)

SpecCancel == InitBlocking /\ [][NextCancel]_vars

\* -------------------------------- extractBaseCurrency, extractQuoteCurrency
\* Strings are sequences of one-character strings.
LowerCase ==
  <<"a", "b", "c", "d", "e", "f", "g", "h", "i", "j", "k", "l", "m",
    "n", "o", "p", "q", "r", "s", "t", "u", "v", "w", "x", "y", "z">>

UpperCase ==
  <<"A", "B", "C", "D", "E", "F", "G", "H", "I", "J", "K", "L", "M",
    "N", "O", "P", "Q", "R", "S", "T", "U", "V", "W", "X", "Y", "Z">>

\* the character of sequence to at the place ch has in sequence from
Mapped(ch, from, to) ==
  IF \E i \in DOMAIN from : from[i] = ch
    THEN to[CHOOSE i \in DOMAIN from : from[i] = ch]
    ELSE ch

\* strings.ToLower, strings.ToUpper
ToLower(str) == [i \in DOMAIN str |-> Mapped(str[i], UpperCase, LowerCase)]

ToUpper(str) == [i \in DOMAIN str |-> Mapped(str[i], LowerCase, UpperCase)]

\* strings.HasSuffix
HasSuffix(str, suffix) ==
  /\ Len(suffix) <= Len(str)
  /\ SubSeq(str, Len(str) - Len(suffix) + 1, Len(str)) = suffix

\* quoteCurrencies := []string{"usd", "btc", "eth", "eur", "gbp", "sgd", "gusd", "dai"}
quoteCurrencies ==
  << <<"u", "s", "d">>, <<"b", "t", "c">>, <<"e", "t", "h">>, <<"e", "u", "r">>,
     <<"g", "b", "p">>, <<"s", "g", "d">>, <<"g", "u", "s", "d">>, <<"d", "a", "i">> >>

\* the index of the quote currency the range loop returns at, 0 when it
\* runs to its end
FirstQuote(lower) ==
  IF \E q \in DOMAIN quoteCurrencies : HasSuffix(lower, quoteCurrencies[q])
    THEN CHOOSE q \in DOMAIN quoteCurrencies :
           /\ HasSuffix(lower, quoteCurrencies[q])
           /\ \A r \in 1..(q - 1) : ~HasSuffix(lower, quoteCurrencies[r])
    ELSE 0

extractBaseCurrency(symbol) ==
  LET lower == ToLower(symbol)
      q == FirstQuote(lower)
  IN IF q # 0 THEN ToUpper(SubSeq(lower, 1, Len(lower) - Len(quoteCurrencies[q])))
     ELSE IF Len(lower) >= 6 THEN ToUpper(SubSeq(lower, 1, 3))
     ELSE ToUpper(lower)

extractQuoteCurrency(symbol) ==
  LET lower == ToLower(symbol)
      q == FirstQuote(lower)
  IN IF q # 0 THEN ToUpper(quoteCurrencies[q])
     ELSE IF Len(lower) >= 6 THEN ToUpper(SubSeq(lower, Len(lower) - 2, Len(lower)))
     ELSE <<"U", "S", "D">>

\* the symbols converted: a head followed by a tail, in either case
SymbolHeads ==
  {<<>>, <<"b", "t", "c">>, <<"E", "t", "h">>, <<"d", "o", "g", "e">>, <<"x">>}

SymbolTails ==
  {quoteCurrencies[q] : q \in DOMAIN quoteCurrencies}
    \cup {ToUpper(quoteCurrencies[q]) : q \in DOMAIN quoteCurrencies}
    \cup {<<>>, <<"x", "y">>, <<"x", "y", "z">>, <<"u", "s">>}

SymbolInputs == {head \o tail : head \in SymbolHeads, tail \in SymbolTails}

\* GetTradingPairs builds the pair of a symbol without details.
MakePair(c, symbol) ==
  /\ Running /\ pc[c] = "idle"
  /\ frame' = [frame EXCEPT ![c] =
       [NoFrame EXCEPT !.op = "MakePair", !.symbol = symbol,
                       !.pair = [Symbol |-> ToUpper(symbol),
                                 BaseAsset |-> extractBaseCurrency(symbol),
                                 QuoteAsset |-> extractQuoteCurrency(symbol)]]]
  /\ UNCHANGED <<now, fatal, limiters, pc, ctx, stats, calls, clientVars>>

NextCurrency == \E c \in Solo, symbol \in SymbolInputs : MakePair(c, symbol)

SpecCurrency == InitFanOut /\ [][NextCurrency]_vars

\* ------------------------------------------- beside a sleeping waiter
\* The clock stands still: a request that finds the bucket of its class
\* empty sleeps for good, and one put on the wire gets no response.  The public class is limited to 1 request per
\* interval and may be reconfigured to a limiter without tokens; the
\* callers issue public and private requests while the transport is
\* reconfigured.
SleepPublicOps == {"ListSymbols"}

SleepPrivateOps == {"GetAvailableBalances"}

InitSleep == InitClient(Config("key", "secret", FALSE, RateLimit(1, 1), NoLimit))

\* the steps of the setters of the transport
Configure ==
  \/ ConfigLock \/ StoreHeader \/ MakeProxies \/ CopyProxy \/ StoreLimiter \/ ConfigUnlock

\* the steps of a request from its invocation to DoTimeout, the timer's
\* branch apart
Dispatch(c) ==
  \/ Build(c)
  \/ ReqSelect(c) \/ WaitLock(c) \/ WaitRefill(c) \/ WaitUnlock(c)
  \/ WaitConsume(c) \/ WaitReturn(c)
  \/ ReqRLock(c) \/ ReqReadHeader(c) \/ ReqReadProxies(c) \/ ReqRUnlock(c) \/ ReqPick(c)

NextSleep ==
  \/ CallSetRateLimit("public", 0, 1)
  \/ CallSetHeaders([k \in {"Accept"} |-> "text/plain"])
  \/ CallSetProxies(<<"proxy-1", "proxy-2">>)
  \/ Configure
  \/ \E c \in Callers :
       \/ \E op \in SleepPublicOps : StartPublic(c, op)
       \/ \E op \in SleepPrivateOps : StartPrivate(c, op)
       \/ Dispatch(c)

\* A runnable goroutine runs, and a lock that is free is acquired.
SpecSleep ==
  /\ InitSleep /\ [][NextSleep]_vars
  /\ WF_vars(Configure)
  /\ \A c \in Callers : WF_vars(Dispatch(c))

\* ------------------------------------------- Gemini.SetAPICredentials
\* SetAPICredentials(apiKey, apiSecret) takes no lock: its two stores are
\* steps of their own among the reads of the operations.
CallSetAPICredentials(key, secret) ==
  /\ Running /\ setter.pc = "idle" /\ setter.n < MaxSets
  /\ setter' = [setter EXCEPT !.pc = "s_key", !.op = "SetAPICredentials",
                              !.key = key, !.secret = secret]
  /\ SetterFrame
  /\ UNCHANGED <<transportVars, geminiVars>>

\* g.apiKey = apiKey
StoreAPIKey ==
  /\ Running /\ setter.pc = "s_key"
  /\ apiKey' = setter.key
  /\ setter' = [setter EXCEPT !.pc = "s_secret"]
  /\ SetterFrame
  /\ UNCHANGED <<transportVars, apiSecret, baseURL, sandbox>>

\* g.apiSecret = apiSecret, and the return
StoreAPISecret ==
  /\ Running /\ setter.pc = "s_secret"
  /\ apiSecret' = setter.secret
  /\ setter' = SetterReturned
  /\ SetterFrame
  /\ UNCHANGED <<transportVars, apiKey, baseURL, sandbox>>

\* the pairs passed to SetAPICredentials
CredentialPairs == {<<"key-2", "secret-2">>, <<"", "">>}

CredentialOps == {"PlaceOrder"}

InitCredentials == InitClient(Config("key", "secret", FALSE, NoLimit, NoLimit))

\* One goroutine sets the credentials while the callers place orders.
NextCredentials ==
  \/ \E p \in CredentialPairs : CallSetAPICredentials(p[1], p[2])
  \/ StoreAPIKey \/ StoreAPISecret
  \/ \E c \in Callers :
       \/ \E op \in CredentialOps : StartPrivate(c, op)
       \/ Build(c) \/ Ready(c) \/ ReqSend(c)

SpecCredentials == InitCredentials /\ [][NextCredentials]_vars

\* --------------------------------------- the pooled response objects
MaxResponses == 2

\* fasthttp.AcquireResponse(): an object taken from the pool, or a new one
\* when the pool gives none.  The storage of a pooled object keeps the
\* bytes last written to it.
AcquireResponse(c) ==
  /\ Running /\ pc[c] = "r_send" /\ frame[c].resp = 0
  /\ \E r \in {i \in DOMAIN responses : responses[i].free}
              \cup (IF Len(responses) < MaxResponses THEN {Len(responses) + 1} ELSE {}) :
       /\ responses' = IF r \in DOMAIN responses
                          THEN [responses EXCEPT ![r].free = FALSE]
                          ELSE Append(responses, [body |-> NoBody, free |-> FALSE])
       /\ frame' = [frame EXCEPT ![c].resp = r]
  /\ UNCHANGED <<now, fatal, limiters, pc, ctx, stats, calls, transportVars, geminiVars,
                 setupVars>>

\* DoTimeout(req, resp, timeout) returns: a response read is written to
\* the storage of resp.
DoTimeoutReturns(c) ==
  /\ Running /\ pc[c] = "r_inflight" /\ frame[c].resp # 0
  /\ \E o \in Outcomes :
       /\ responses' = IF o.fail THEN responses
                          ELSE [responses EXCEPT ![frame[c].resp].body = o.body]
       /\ frame' = [frame EXCEPT ![c].wire = o]
  /\ pc' = [pc EXCEPT ![c] = "r_status"]
  /\ UNCHANGED <<now, fatal, limiters, ctx, stats, calls, transportVars, geminiVars, setupVars>>

\* The status is checked and the transport returns: an error, or
\* resp.Body(), a slice of the storage of resp; the deferred
\* ReleaseResponse(resp) puts resp back in the pool.
ReturnBody(c) ==
  /\ Running /\ pc[c] = "r_status"
  /\ responses' = [responses EXCEPT ![frame[c].resp].free = TRUE]
  /\ LET tres == TransportReturn(frame[c].wire)
     IN IF tres.err = Nil
          THEN /\ frame' = [frame EXCEPT ![c].held = frame[c].resp, ![c].resp = 0]
               /\ pc' = [pc EXCEPT ![c] = "o_parse"]
          ELSE /\ frame' = [frame EXCEPT ![c] = Delivered([@ EXCEPT !.resp = 0], tres)]
               /\ pc' = [pc EXCEPT ![c] = AfterDelivery(frame[c], tres)]
  /\ UNCHANGED <<now, fatal, limiters, ctx, stats, calls, transportVars, geminiVars, setupVars>>

\* json.Unmarshal(response, &v) of the operation reads the bytes through
\* the slice it was returned.
ParseBody(c) ==
  /\ Running /\ pc[c] = "o_parse"
  /\ LET tres == [body |-> responses[frame[c].held].body, err |-> Nil]
     IN /\ frame' = [frame EXCEPT ![c] = Delivered(@, tres)]
        /\ pc' = [pc EXCEPT ![c] = AfterDelivery(frame[c], tres)]
  /\ UNCHANGED <<now, fatal, limiters, ctx, stats, calls, clientVars>>

\* the request is built and DoTimeout entered, resp acquired before
SendPooled(c) == frame[c].resp # 0 /\ ReqSend(c)

PoolOps == {"ListSymbols"}

InitPool == InitClient(Config("", "", FALSE, NoLimit, NoLimit))

\* Two goroutines issue a request each; the requests of one client share
\* the pool.
NextPool ==
  \E c \in Callers :
    \/ \E op \in PoolOps : StartPublic(c, op)
    \/ Ready(c)
    \/ AcquireResponse(c)
    \/ SendPooled(c)
    \/ DoTimeoutReturns(c) \/ ReturnBody(c) \/ ParseBody(c)

SpecPool == InitPool /\ [][NextPool]_vars

\* ------------------------------------------- replacing a limiter
\* A client with one token per class and interval; a limiter of either
\* class is replaced while public and private requests are selected, wait
\* and are dispatched.
ReplaceRequests == 0..MaxCap

InitReplace == InitClient(Config("key", "secret", FALSE, RateLimit(1, 1), RateLimit(1, 1)))

Replace == ConfigLock \/ StoreLimiter \/ ConfigUnlock

NextReplace ==
  \/ \E apiType \in APITypes, requests \in ReplaceRequests, interval \in 1..MaxInterval :
       CallSetRateLimit(apiType, requests, interval)
  \/ Replace
  \/ \E c \in Callers :
       \/ \E op \in SleepPublicOps : StartPublic(c, op)
       \/ \E op \in SleepPrivateOps : StartPrivate(c, op)
       \/ Dispatch(c)

SpecReplace == InitReplace /\ [][NextReplace]_vars

\* The callers of l that are inside Wait.
InWait(l) == {c \in Callers : frame[c].op = "Wait" /\ pc[c] # "idle" /\ frame[c].rl = l}

\* C1: for a limiter of capacity N >= 1 and interval I > 0, the number of
\* acquisitions granted (TryAcquire returning true, Wait returning nil)
\* since construction never exceeds N + floor(elapsed / I).  Stated for the
\* runs in which no Wait was cancelled.
RateBound ==
  \A l \in DOMAIN limiters :
    (limiters[l].maxTokens >= 1 /\ limiters[l].interval > 0 /\ stats[l].waitErr = 0)
      => stats[l].tryOk + stats[l].waitOk
           <= limiters[l].maxTokens + ((now - stats[l].born) \div limiters[l].interval)

\* C3: whenever the mutex of a limiter of capacity N >= 0 is free,
\* 0 <= tokens <= N.
TokenRange ==
  \A l \in DOMAIN limiters :
    (limiters[l].maxTokens >= 0 /\ ~limiters[l].mu)
      => (0 <= limiters[l].tokens /\ limiters[l].tokens <= limiters[l].maxTokens)

\* C4: while less than one interval has passed since the construction of a
\* limiter of capacity N on which only TryAcquire is called, the calls that
\* returned true are exactly the first N to return (none when N <= 0), and
\* every later one returned false.
TryAcquireFirstN ==
  \A l \in DOMAIN limiters :
    (now - stats[l].born < limiters[l].interval
       /\ stats[l].waitOk = 0 /\ stats[l].waitErr = 0 /\ InWait(l) = {})
      => stats[l].tryOk =
           min(IF limiters[l].maxTokens > 0 THEN limiters[l].maxTokens ELSE 0,
               stats[l].tryOk + stats[l].tryFail)

TryAcquireFirstNWitness ==
  \E l \in DOMAIN limiters :
    /\ now - stats[l].born < limiters[l].interval
    /\ stats[l].waitOk = 0 /\ stats[l].waitErr = 0 /\ InWait(l) = {}
    /\ limiters[l].maxTokens = 2
    /\ stats[l].tryOk = 2 /\ stats[l].tryFail >= 1

\* C5: once a limiter of capacity N >= 1 has been drained, nobody is using
\* it and a full interval has passed since the last acquisition, the next
\* access finds N tokens.
RefillToCapacity ==
  \A l \in DOMAIN limiters :
    (limiters[l].maxTokens >= 1 /\ limiters[l].interval > 0
       /\ limiters[l].tokens = 0 /\ ~limiters[l].mu
       /\ stats[l].waitErr = 0
       /\ (\A c \in Callers : pc[c] = "idle")
       /\ stats[l].tryOk + stats[l].waitOk >= limiters[l].maxTokens
       /\ now >= stats[l].lastGrant + limiters[l].interval)
      => Refill(limiters[l], now).tokens = limiters[l].maxTokens

\* A returned request's response body as it came off the wire, whatever
\* the status.
ReceivedBody(tres) ==
  IF tres.err = Nil THEN tres.body
  ELSE IF tres.err[1].status # 0 THEN tres.err[1].body
  ELSE NoBody

Returned200(c) ==
  pc[c] = "idle" /\ frame[c].netCalls > 0 /\ frame[c].tres.err = Nil

IsAPIError(err, reason, message) ==
  /\ Len(err) = 1 /\ err[1].sdk /\ err[1].code = ErrAPIError
  /\ err[1].reason = reason /\ err[1].message = message

\* C2: when a request is waiting for a token and takes the branch of its
\* ended context, Wait returns the context's error, no token is consumed,
\* the mutex is left as it was (free), the process keeps running, the
\* transport returns a RateLimit error wrapping the context's error and no
\* network call is made.
CancelWhileWaiting ==
  [][\A c \in Callers :
       (frame[c].op \in PrivateOps \cup PublicOps /\ WaitCtxDone(c)) =>
         /\ fatal' = ""
         /\ frame'[c].res = ctx[c]
         /\ limiters'[frame[c].rl].tokens = limiters[frame[c].rl].tokens
         /\ ~limiters'[frame[c].rl].mu
         /\ frame'[c].tres.err = Wrap(ErrRateLimit, Foreign(ctx[c]))
         /\ frame'[c].netCalls = frame[c].netCalls
         /\ pc'[c] = "idle"]_vars

\* C7: a private operation invoked while apiKey or apiSecret is empty gets
\* no further than its guard; it returns a nil result with an InvalidInput
\* error, makes no network call, selects no limiter and leaves the private
\* limiter's tokens untouched.
PrivateCallGuard ==
  \A c \in Callers :
    (frame[c].op \in PrivateOps /\ frame[c].emptyCreds) =>
      /\ pc[c] \in {"idle", "p_secret"}
      /\ pc[c] = "idle" => (frame[c].out.val = NilValue
                            /\ GetCode(frame[c].out.err) = ErrInvalidInput)
      /\ frame[c].netCalls = 0 /\ frame[c].req = NoRequest
      /\ frame[c].lim = 0 /\ frame[c].rl = 0
      /\ privateLimiter # 0 =>
           limiters[privateLimiter].tokens = limiters[privateLimiter].maxTokens

PrivateCallGuardWitness ==
  \E c \in Callers :
    /\ frame[c].op \in PrivateOps /\ frame[c].emptyCreds /\ pc[c] = "idle"
    /\ apiKey # "" /\ apiSecret = "" /\ privateLimiter # 0
    /\ GetCode(frame[c].out.err) = ErrInvalidInput

\* C8: a private operation whose transport request returned HTTP 200 with a
\* JSON object whose result member is "error" returns a nil result and an
\* APIError made of the envelope's reason and message.
EnvelopePrecedence ==
  \A c \in Callers :
    (frame[c].op \in PrivateOps /\ Returned200(c)
       /\ frame[c].tres.body.json = "object" /\ frame[c].tres.body.result = "error") =>
      /\ frame[c].out.val = NilValue
      /\ IsAPIError(frame[c].out.err, frame[c].tres.body.reason, frame[c].tres.body.message)

EnvelopePrecedenceWitness ==
  \E c \in Callers :
    /\ frame[c].op \in PrivateOps /\ Returned200(c)
    /\ frame[c].tres.body = EnvelopeBody
    /\ IsAPIError(frame[c].out.err, "X", "Y")

\* C9: every operation, public or private, whose response body is an error
\* envelope returns a nil result and an APIError, whatever the HTTP status.
EnvelopeProbeEverywhere ==
  \A c \in Callers :
    (frame[c].op \in PrivateOps \cup PublicOps /\ pc[c] = "idle" /\ frame[c].netCalls > 0
       /\ IsErrorEnvelope(ReceivedBody(frame[c].tres))) =>
      /\ frame[c].out.val = NilValue
      /\ IsAPIError(frame[c].out.err, ReceivedBody(frame[c].tres).reason,
                    ReceivedBody(frame[c].tres).message)

\* C10: every private request put on the wire is a POST with an empty body
\* whose headers hold the key, payload and signature the operation computed,
\* Content-Type: text/plain and Content-Length: 0, whatever the default
\* headers were when the request was built.
PrivateWireContract ==
  \A c \in Callers :
    (frame[c].op \in PrivateOps /\ frame[c].netCalls > 0) =>
      LET hdr == frame[c].req.hdr
          payload == Payload(Endpoint(frame[c].op), frame[c].nonce)
      IN /\ frame[c].req.method = "POST"
         /\ frame[c].req.body = ""
         /\ {"X-GEMINI-APIKEY", "X-GEMINI-PAYLOAD", "X-GEMINI-SIGNATURE",
             "Content-Type", "Content-Length"} \subseteq DOMAIN hdr
         /\ hdr["Content-Type"] = "text/plain"
         /\ hdr["Content-Length"] = "0"
         /\ hdr["X-GEMINI-APIKEY"] = apiKey
         /\ hdr["X-GEMINI-PAYLOAD"] = payload
         /\ hdr["X-GEMINI-SIGNATURE"] = Signature(apiSecret, payload)

PrivateWireContractWitness ==
  \E c \in Callers :
    /\ frame[c].op \in PrivateOps /\ frame[c].netCalls > 0
    /\ "X-GEMINI-APIKEY" \in DOMAIN frame[c].dflt
    /\ frame[c].dflt["X-GEMINI-APIKEY"] = "other-key"
    /\ frame[c].dflt["Content-Type"] = "application/xml"
    /\ frame[c].req.hdr["X-GEMINI-APIKEY"] = "key"
    /\ frame[c].req.hdr["Content-Type"] = "text/plain"

HasRateLimitLayer(err) == \E i \in DOMAIN err : err[i].sdk /\ err[i].code = ErrRateLimit

\* C6: with the public class limited to 1 request per interval I and
\* contexts that never end: no request is rejected by the limiter; a request
\* sleeps only when the token has been taken by an earlier one; a token is
\* never taken less than I after the start of the refill window in which
\* the previous one was taken; and every request issued is eventually sent
\* and completes.
BlockingNotFailing ==
  /\ [](\A c \in Callers :
          /\ ~HasRateLimitLayer(frame[c].out.err)
          /\ frame[c].slept => stats[publicLimiter].window >= 0
          /\ frame[c].netCalls > 0 => frame[c].sentAt >= stats[publicLimiter].born)
  /\ [][\A c \in Callers :
          (WaitConsume(c) /\ stats[publicLimiter].window >= 0) =>
            limiters[publicLimiter].lastRefill
              >= stats[publicLimiter].window + limiters[publicLimiter].interval]_vars
  /\ \A c \in Callers :
       (pc[c] # "idle") ~> (pc[c] = "idle" /\ frame[c].netCalls = 1)

BlockingNotFailingWitness ==
  \E c \in Callers :
    /\ frame[c].op \in BlockingOps /\ pc[c] = "idle"
    /\ frame[c].slept /\ frame[c].netCalls = 1
    /\ frame[c].sentAt >= limiters[publicLimiter].interval
    /\ stats[publicLimiter].waitOk = 2

\* what a receiver recovers from the two headers
Base64Decode(str) == str.of

HexDecode(str) == str.of

Signed == {c \in Callers : frame[c].op \in PrivateOps /\ frame[c].ovr # NoHeaders}

\* C12: two signed requests of one client never carry the same nonce.
NonceUnique ==
  \A a, b \in Signed : a # b => frame[a].nonce # frame[b].nonce


\* C13: whenever no SetSandbox call is under way, baseURL is the sandbox
\* host exactly when the sandbox flag is true and the production host
\* exactly when it is false; the flag is the construction-time Testnet value
\* until SetSandbox is called and then the argument of the last call; and a
\* step of SetSandbox changes neither the credentials, nor the default
\* headers, nor the proxies, nor the rate limiters.
SandboxToggle ==
  /\ [](setter.pc # "sb_url" =>
          /\ baseURL \in {baseURLSandbox, baseURLProd}
          /\ (baseURL = baseURLSandbox) <=> sandbox
          /\ (baseURL = baseURLProd) <=> ~sandbox
          /\ ~setter.toggled => sandbox = cfg.Testnet)
  /\ [][/\ \A b \in BOOLEAN : SetSandbox(b) => sandbox' = b
        /\ SetSandboxURL => sandbox' = setter.flag
        /\ ((\E b \in BOOLEAN : SetSandbox(b)) \/ SetSandboxURL) =>
             UNCHANGED <<apiKey, apiSecret, headers, proxies, customClient,
                         limiters, publicLimiter, privateLimiter>>]_vars

\* the production client has been switched to the sandbox
SandboxToggleWitness ==
  /\ setter.pc = "idle" /\ setter.toggled
  /\ ~cfg.Testnet /\ sandbox /\ baseURL = baseURLSandbox

\* C14: a client constructed with Sandbox = true, on which SetSandbox was
\* never called, has the sandbox host as its base URL, as one constructed
\* with Testnet = true has, and every request it puts on the wire goes to
\* the sandbox host.
SandboxAlias ==
  (cfg.Sandbox /\ ~setter.toggled) =>
     /\ baseURL = NewGemini([cfg EXCEPT !.Testnet = TRUE], 0).baseURL
     /\ \A c \in Callers : pc[c] = "r_inflight" => frame[c].req.url.base = baseURLSandbox

\* C15: until a setter is called, the default headers given in the
\* configuration are among the transport's default headers and the proxy
\* list given in it is the transport's proxy pool; and a request that
\* selects its client when a custom HTTP client is installed (by the
\* configuration or by SetHTTPClient) is executed through that client.
ConfigTakesEffect ==
  /\ []((setter.n = 0 /\ setter.pc = "idle") =>
          /\ \A k \in DOMAIN cfg.Headers : Lookup(headers, k) = cfg.Headers[k]
          /\ proxies = cfg.Proxies)
  /\ [][\A c \in Callers :
          (ReqPick(c) /\ customClient # "") => frame'[c].req.client = customClient]_vars

\* a setter of the transport is between its first and its last store
MidUpdate == setter.pc \in {"s_range", "s_make", "s_copy", "s_client", "s_done"}

\* C16: when a request releases the read lock, no setter is in the middle
\* of an update and the default headers and the proxy list the request has
\* read are the transport's header map and proxy list of that instant; the
\* request put on the wire carries those default headers under its
\* overrides and goes through a proxy of that list, or directly when the
\* list is empty.
AtomicConfigReads ==
  /\ [][\A c \in Callers : ReqRUnlock(c) =>
          /\ ~MidUpdate
          /\ frame[c].dflt = headers
          /\ frame[c].pool = proxies]_vars
  /\ [](\A c \in Callers : pc[c] = "r_inflight" =>
          /\ frame[c].req.hdr = MergeHeaders(frame[c].dflt, frame[c].ovr)
          /\ IF frame[c].pool = <<>>
               THEN frame[c].req.proxy = ""
               ELSE \E i \in DOMAIN frame[c].pool : frame[c].req.proxy = frame[c].pool[i])

\* a request has read the proxies a completed SetProxies installed while
\* the next setter waits for the lock
AtomicConfigReadsWitness ==
  \E c \in Callers :
    /\ pc[c] = "r_runlock" /\ frame[c].pool = <<"proxy-1", "proxy-2">>
    /\ setter.pc = "s_lock" /\ mu.r = 1

\* C17: when a SetHeaders call returns, each key of the map it was called
\* with holds that map's value, and every other default header is as it was
\* before the call: neither added, nor removed, nor changed.
HeaderMergeFrame ==
  [][(ConfigUnlock /\ setter.op = "SetHeaders") =>
       /\ DOMAIN headers' = (DOMAIN setter.before) \cup (DOMAIN setter.h)
       /\ \A k \in DOMAIN setter.h : headers'[k] = setter.h[k]
       /\ \A k \in (DOMAIN setter.before) \ (DOMAIN setter.h) :
            headers'[k] = setter.before[k]]_vars

\* the symbols of the list whose detail call, the i-th and later, returned no error
RECURSIVE Kept(_, _, _)
Kept(symbols, errs, i) ==
  IF i > Len(symbols) THEN <<>>
  ELSE (IF errs[i + 1] = Nil THEN <<symbols[i]>> ELSE <<>>) \o Kept(symbols, errs, i + 1)

\* C18: GetAllSymbolDetails returns an error exactly when its ListSymbols
\* call returned one, and then after that single call; otherwise it has
\* called GetSymbolDetails once for each listed symbol, in list order and
\* whatever the earlier calls returned, and returns a nil error with the
\* details of exactly the symbols whose call returned no error, in list
\* order.  Each call made one request, for the symbol at its place.
BestEffortFanOut ==
  \A c \in Callers :
    LET F == frame[c]
    IN F.op = "GetAllSymbolDetails" =>
         /\ (pc[c] = "idle") =>
              /\ (F.out.err # Nil) <=> (F.errs[1] # Nil)
              /\ (F.errs[1] # Nil) =>
                   /\ Len(F.errs) = 1 /\ F.netCalls = 1
                   /\ F.out.val = NilValue /\ F.details = <<>>
                   /\ GetCode(F.out.err) = ErrNetworkError
              /\ (F.errs[1] = Nil) =>
                   /\ Len(F.errs) = 1 + Len(F.symbols)
                   /\ F.netCalls = 1 + Len(F.symbols)
                   /\ F.details = Kept(F.symbols, F.errs, 1)
                   /\ F.out = AllDetails
         /\ (pc[c] = "r_inflight") =>
              /\ F.netCalls = F.leg /\ Len(F.errs) = F.leg - 1
              /\ F.req.url.path = IF F.leg = 1 THEN Endpoint("ListSymbols")
                                  ELSE DetailEndpoint(F.symbols[F.leg - 1])

\* the first detail call failed, the second succeeded
BestEffortFanOutWitness ==
  \E c \in Callers :
    /\ pc[c] = "idle" /\ frame[c].op = "GetAllSymbolDetails"
    /\ frame[c].symbols = <<"btcusd", "ethusd">>
    /\ Len(frame[c].errs) = 3 /\ frame[c].errs[2] # Nil /\ frame[c].errs[3] = Nil
    /\ frame[c].details = <<"ethusd">> /\ frame[c].out.err = Nil

\* C19: a request whose context has ended does not enter the network call,
\* and a network call whose context has ended does not hand a response to
\* the operation: the transport returns an error.
CancelAtNetwork ==
  [][\A c \in Callers :
       /\ ReqSend(c) => ctx[c] = "live"
       /\ (NetResponse(c) /\ ctx[c] # "live") => frame'[c].tres.err # Nil]_vars

NoFatalFault == fatal = ""

\* C22: a domain operation that returns because its wait for a token was
\* cancelled returns an error of kind RateLimit that carries the context's
\* error as its cause, and one that returns because the response could not
\* be deserialized returns an error of kind DataParsingError.
CallerErrorKind ==
  \A c \in Callers :
    (pc[c] = "idle" /\ frame[c].op \in PrivateOps \cup PublicOps) =>
       /\ (frame[c].res \in CtxErrors) =>
            /\ GetCode(frame[c].out.err) = ErrRateLimit
            /\ \E i \in DOMAIN frame[c].out.err :
                 frame[c].out.err[i] = Foreign(frame[c].res)[1]
       /\ (frame[c].tres.err = Nil /\ frame[c].netCalls > 0
             /\ ~Unmarshals(frame[c].tres.body, LegType(frame[c].op, frame[c].leg))) =>
            GetCode(frame[c].out.err) = ErrDataParsingError

\* the known quote currencies the lower-cased symbol ends with
QuoteSuffixes(lower) ==
  {q \in DOMAIN quoteCurrencies : HasSuffix(lower, quoteCurrencies[q])}

\* C23: for a symbol that ends, whatever its case, with a known quote
\* currency, the quote is the longest such suffix upper-cased and the base
\* the rest upper-cased, so that base and quote make up the upper-cased
\* symbol; for another symbol of 6 characters or more, base and quote are
\* its first and last three characters upper-cased; for any other symbol
\* the base is the upper-cased symbol and the quote is USD.
CurrencyHeuristic ==
  \A c \in Callers :
    frame[c].op = "MakePair" =>
      LET lower == ToLower(frame[c].symbol)
          upper == ToUpper(frame[c].symbol)
          base == frame[c].pair.BaseAsset
          quote == frame[c].pair.QuoteAsset
          Q == QuoteSuffixes(lower)
      IN IF Q # {}
           THEN /\ \E q \in Q :
                     /\ \A r \in Q : Len(quoteCurrencies[r]) <= Len(quoteCurrencies[q])
                     /\ quote = ToUpper(quoteCurrencies[q])
                /\ base \o quote = upper
         ELSE IF Len(lower) >= 6
           THEN /\ base = SubSeq(upper, 1, 3)
                /\ quote = SubSeq(upper, Len(upper) - 2, Len(upper))
         ELSE base = upper /\ quote = <<"U", "S", "D">>

\* the callers between their Lock of limiter l and their next Unlock of it
Holders(l) ==
  {c \in Callers :
     /\ frame[c].rl = l
     /\ pc[c] \in {"t_refill", "t_consume", "t_return",
                   "w_refill", "w_unlock", "w_grant", "w_consume", "w_return"}}

\* C24: while the process runs, at most one caller is inside the refill,
\* decision and mutation sequence of a limiter, and the limiter's mutex is
\* locked exactly while a caller is inside it: nobody unlocks a mutex that
\* another caller holds, and nobody returns leaving it locked.
LockDiscipline ==
  Running =>
    \A l \in DOMAIN limiters :
      /\ Cardinality(Holders(l)) <= 1
      /\ limiters[l].mu <=> Holders(l) # {}

\* a request sleeps in Wait on an empty bucket
Sleeping == \E s \in Callers : pc[s] = "w_select"

\* C25: while a request sleeps in Wait, (a) a caller that is at the Lock of
\* a limiter gets past it; (b) a private request that has a token is put on
\* the wire, no private request ever sleeps, and no step of a public
\* request changes a limiter other than its own; (c) a call of SetHeaders,
\* SetProxies or SetRateLimit returns.
SleeperStallsNobody ==
  /\ \A c \in Callers : (Sleeping /\ pc[c] = "w_lock") ~> (pc[c] # "w_lock")
  /\ \A c \in Callers :
       (Sleeping /\ frame[c].op \in PrivateOps /\ pc[c] = "r_select") ~> (pc[c] = "r_inflight")
  /\ (Sleeping /\ setter.pc # "idle") ~> (setter.pc = "idle")
  /\ [](\A c \in Callers : frame[c].op \in PrivateOps => ~frame[c].slept)
  /\ [][\A c \in Callers :
          (frame[c].op \in PublicOps /\ pc'[c] # pc[c] /\ frame[c].rl # 0) =>
            \A l \in DOMAIN limiters : l # frame[c].rl => limiters'[l] = limiters[l]]_vars

\* beside a sleeping public request, a private request is on the wire and
\* the setters have returned
SleeperStallsNobodyWitness ==
  \E s, c \in Callers :
    /\ pc[s] = "w_select" /\ frame[s].op \in PublicOps
    /\ pc[c] = "r_inflight" /\ frame[c].op \in PrivateOps
    /\ setter.n = MaxSets /\ setter.pc = "idle"
    /\ ~limiters[frame[s].rl].mu /\ mu = Unheld

\* C26: SetRateLimit(class, n, interval) installs a new limiter for the
\* class with n tokens, capacity n and the interval, and writes neither an
\* instance there was, nor the other class's limiter, the headers or the
\* proxies; a request that has selected its limiter keeps that instance,
\* and a request that selects reads the limiter installed for its class.
ClassLimiter(op, public, private) == IF op \in PrivateOps THEN private ELSE public

WholesaleReplacement ==
  /\ [][(setter.pc = "s_limiter" /\ setter'.pc = "s_done") =>
          LET installed == IF setter.apiType = "public" THEN publicLimiter' ELSE privateLimiter'
          IN /\ installed \notin DOMAIN limiters /\ installed \in DOMAIN limiters'
             /\ limiters'[installed].tokens = setter.requests
             /\ limiters'[installed].maxTokens = setter.requests
             /\ limiters'[installed].interval = setter.interval
             /\ \A l \in DOMAIN limiters : limiters'[l] = limiters[l]
             /\ setter.apiType = "public" => privateLimiter' = privateLimiter
             /\ setter.apiType = "private" => publicLimiter' = publicLimiter
             /\ headers' = headers /\ proxies' = proxies
             /\ \A c \in Callers : frame'[c].rl = frame[c].rl]_vars
  /\ [][\A c \in Callers :
          /\ (pc[c] = "r_select" /\ pc'[c] # "r_select") =>
               /\ frame'[c].lim = ClassLimiter(frame[c].op, publicLimiter, privateLimiter)
               /\ ~mu.w /\ setter.pc \notin {"s_limiter", "s_done"}
          /\ (pc[c] \notin {"idle", "r_select"} /\ pc'[c] # "idle") =>
               frame'[c].lim = frame[c].lim
          /\ pc'[c] \in {"w_lock", "w_refill", "w_unlock", "w_select", "w_consume", "w_return"} =>
               frame'[c].rl = frame'[c].lim]_vars

\* a request asleep on the instance that was replaced while another has
\* selected the one installed
WholesaleReplacementWitness ==
  \E w, c \in Callers :
    /\ frame[w].op \in PublicOps /\ frame[c].op \in PublicOps
    /\ pc[w] = "w_select" /\ frame[w].rl = 3
    /\ publicLimiter = 4 /\ setter.pc = "idle"
    /\ pc[c] = "r_send" /\ frame[c].lim = 4
    /\ limiters[4].maxTokens = MaxCap /\ limiters[4].tokens = MaxCap - 1
    /\ limiters[3].maxTokens = 0 /\ limiters[3].tokens = 0
    /\ limiters[1].tokens = 1 /\ privateLimiter = 2

\* C27: the client the constructor returns has a public and a private
\* limiter whatever its configuration (nil included), with 120 per minute
\* for public and 600 per minute for private where the configuration gives
\* no positive count, and no request of it reaches the network without
\* having selected a limiter.
LimitersFromConstruction ==
  /\ calls = 0 =>
       /\ publicLimiter \in DOMAIN limiters /\ privateLimiter \in DOMAIN limiters
       /\ publicLimiter # privateLimiter
       /\ (cfg.isNil \/ cfg.Public.Requests <= 0) =>
            /\ limiters[publicLimiter].maxTokens = DefaultPublicRequests
            /\ limiters[publicLimiter].interval = Minute
       /\ (cfg.isNil \/ cfg.Private.Requests <= 0) =>
            /\ limiters[privateLimiter].maxTokens = DefaultPrivateRequests
            /\ limiters[privateLimiter].interval = Minute
  /\ \A c \in Callers : pc[c] \in {"r_send", "r_inflight"} => frame[c].lim # 0

\* C28: every private request on the wire carries a non-empty API key and
\* a signature keyed by a non-empty secret, the two having been installed
\* together by the constructor or by one SetAPICredentials call.
InstalledPairs == {<<cfg.APIKey, cfg.SecretKey>>} \cup CredentialPairs

CredentialPairing ==
  \A c \in Callers :
    (frame[c].op \in PrivateOps /\ pc[c] = "r_inflight") =>
      \E p \in InstalledPairs :
        /\ p[1] # "" /\ p[2] # ""
        /\ frame[c].req.hdr["X-GEMINI-APIKEY"] = p[1]
        /\ frame[c].req.hdr["X-GEMINI-SIGNATURE"] =
             Signature(p[2], frame[c].req.hdr["X-GEMINI-PAYLOAD"])

\* C29: of two private requests of one client that reach the network, the
\* one dispatched first carries the smaller nonce: when a request is
\* dispatched while another is on the wire, its nonce is the larger one.
Dispatched(c) == frame[c].op \in PrivateOps /\ pc[c] = "r_send" /\ pc'[c] = "r_inflight"

OnTheWire(c) == frame[c].op \in PrivateOps /\ pc[c] = "r_inflight"

NonceOrderIsWireOrder ==
  [][\A a, b \in Callers :
       (a # b /\ OnTheWire(a) /\ Dispatched(b)) => frame[a].nonce < frame[b].nonce]_vars

\* C30: the bytes a successful request has returned to its caller are the
\* response body of that request, after the request has released its
\* pooled objects and whatever other requests acquire and fill since.
BodyNotAliased ==
  \A c \in Callers :
    pc[c] = "o_parse" => responses[frame[c].held].body = frame[c].wire.body
====
